---------------------------- MODULE Spec2Model ----------------------------
(***************************************************************************)
(* A model of the heritage-site transformation pipeline of                 *)
(* src/src/transformers.py (class HeritageDataTransformationPipeline).     *)
(*                                                                         *)
(* Text is modelled by TLA+ strings over ASCII and is processed character  *)
(* by character, the way the regular expressions and string methods of the *)
(* source process it.  The text operations are functions on STRING, so     *)
(* that their arguments are values; a string is rebuilt from the piece     *)
(* each of its characters contributes, the pieces joined half by half.     *)
(* A data_quality_score is held as an integer number of tenths (the source *)
(* divides a count of 0..10 by max_score = 10.0, and k / 10.0 is the       *)
(* double nearest to 0.k, so comparing tenths is exact).                   *)
(***************************************************************************)
EXTENDS Integers, Sequences, FiniteSets, TLC

VARIABLES
    transformation_stats, \* self.transformation_stats of the pipeline instance
    clock,                \* the number of readings of datetime.now() so far
    raw_data,             \* argument of the transform_pipeline call in progress (or last)
    idx,                  \* number of entries of raw_data the for loop has consumed
    standardized_sites,   \* the local list standardized_sites of that call
    pc,                   \* "idle" (no call in progress) or "loop" (inside the for loop)
    outcome,              \* how the last call ended: "none", "returned" or "raised"
    returned,             \* the list the last returning call handed back
    unit                  \* input and result of the pure function under unit check

vars == << transformation_stats, clock, raw_data, idx, standardized_sites,
           pc, outcome, returned, unit >>

-----------------------------------------------------------------------------
(* Bounds of the model.                                                    *)

\* transform_pipeline processes at most this many entries in one behaviour
MaxProcessed == 3

\* criteria texts of the unit check are built from at most this many pieces
MaxPieces == 3

\* collections of the unit check of validate_transformed_data hold at most this many
\* entities
MaxSites == 5

-----------------------------------------------------------------------------
(* Characters and the string primitives of Python used by the source.      *)

LowerAlpha == "abcdefghijklmnopqrstuvwxyz"
UpperAlpha == "ABCDEFGHIJKLMNOPQRSTUVWXYZ"
DigitChars == "0123456789"

Char(s, i) == SubSeq(s, i, i)

CharsOf(s) == { Char(s, i) : i \in 1..Len(s) }

\* \w of the re module, on ASCII
WordChars == CharsOf(LowerAlpha) \cup CharsOf(UpperAlpha) \cup CharsOf(DigitChars) \cup {"_"}

\* \s of the re module, on ASCII
SpaceChars == {" ", "\t", "\n"}

\* the characters _normalize_unicode keeps besides \w and \s
SafePunctuation == {"-", ".", ",", "(", ")", "'", "\"", "/", ":", "&"}

Least(S) == CHOOSE x \in S : \A y \in S : x <= y
Greatest(S) == CHOOSE x \in S : \A y \in S : x >= y

\* F applied to the value of v
Then(v, F(_)) == CHOOSE r \in { F(x) : x \in {v} } : TRUE

LowerOfUpper == [ c \in CharsOf(UpperAlpha) |->
                    Char(LowerAlpha, CHOOSE i \in 1..26 : Char(UpperAlpha, i) = c) ]

LowerChar(c) == IF c \in DOMAIN LowerOfUpper THEN LowerOfUpper[c] ELSE c

LowerF[s \in STRING] ==
    IF Len(s) = 0 THEN ""
    ELSE IF Len(s) = 1 THEN LowerChar(s)
    ELSE LowerF[SubSeq(s, 1, Len(s) \div 2)] \o LowerF[SubSeq(s, Len(s) \div 2 + 1, Len(s))]

\* str.lower()
Lower(s) == LowerF[s]

StripF[s \in STRING] ==
    SubSeq(s, Least({ j \in 1..(Len(s) + 1) : j > Len(s) \/ Char(s, j) \notin SpaceChars }),
              Greatest({ i \in 0..Len(s) : i = 0 \/ Char(s, i) \notin SpaceChars }))

\* str.strip()
Strip(s) == StripF[s]

\* s[i:] begins with p
MatchesAt(s, i, p) == i + Len(p) - 1 <= Len(s) /\ SubSeq(s, i, i + Len(p) - 1) = p

ContainsF[s \in STRING, sub \in STRING] ==
    \E i \in 1..(Len(s) - Len(sub) + 1) : MatchesAt(s, i, sub)

\* the Python test `sub in s`
Contains(s, sub) == ContainsF[s, sub]

\* str.startswith
StartsWith(s, p) == MatchesAt(s, 1, p)

EndsWithF[s \in STRING, p \in STRING] ==
    Len(p) <= Len(s) /\ SubSeq(s, Len(s) - Len(p) + 1, Len(s)) = p

\* str.endswith
EndsWith(s, p) == EndsWithF[s, p]

\* str.replace replaces the occurrence of old at i: the leftmost occurrences that do
\* not overlap
ReplacedAt[s \in STRING, i \in Nat, old \in STRING] ==
    /\ MatchesAt(s, i, old)
    /\ \A j \in 1..(i - 1) : ~(j + Len(old) > i /\ MatchesAt(s, j, old) /\ ReplacedAt[s, j, old])

ReplaceRange[s \in STRING, lo \in Nat, hi \in Nat, old \in STRING, new \in STRING] ==
    IF lo > hi THEN ""
    ELSE IF lo = hi
         THEN IF ReplacedAt[s, lo, old] THEN new
              ELSE IF \E j \in 1..(lo - 1) : j + Len(old) > lo /\ ReplacedAt[s, j, old] THEN ""
              ELSE Char(s, lo)
    ELSE ReplaceRange[s, lo, (lo + hi) \div 2, old, new]
         \o ReplaceRange[s, (lo + hi) \div 2 + 1, hi, old, new]

ReplaceF[s \in STRING, old \in STRING, new \in STRING] == ReplaceRange[s, 1, Len(s), old, new]

\* str.replace(old, new) for a non-empty old
Replace(s, old, new) == ReplaceF[s, old, new]

SplitFirstF[s \in STRING, sep \in STRING] ==
    LET at == { i \in 1..Len(s) : Char(s, i) = sep }
    IN  IF at = {} THEN s ELSE SubSeq(s, 1, Least(at) - 1)

\* s.split(sep)[0] for a one-character sep
SplitFirst(s, sep) == SplitFirstF[s, sep]

\* position i lies in a match of \[.*?\]: between a [ and the first ] after it, with
\* no line break between the two (. matches none)
InRef(s, i) ==
    \E j \in 1..i :
        /\ Char(s, j) = "["
        /\ \E e \in i..Len(s) :
               /\ j < e
               /\ Char(s, e) = "]"
               /\ \A m \in (j + 1)..(e - 1) : Char(s, m) \notin {"]", "\n"}

StripRefsRange[s \in STRING, lo \in Nat, hi \in Nat] ==
    IF lo > hi THEN ""
    ELSE IF lo = hi THEN IF InRef(s, lo) THEN "" ELSE Char(s, lo)
    ELSE StripRefsRange[s, lo, (lo + hi) \div 2] \o StripRefsRange[s, (lo + hi) \div 2 + 1, hi]

StripRefsF[s \in STRING] == StripRefsRange[s, 1, Len(s)]

\* re.sub(r'\[.*?\]', '', s)
StripRefs(s) == StripRefsF[s]

CollapseRange[s \in STRING, lo \in Nat, hi \in Nat, rep \in STRING] ==
    IF lo > hi THEN ""
    ELSE IF lo = hi
         THEN IF Char(s, lo) \notin SpaceChars THEN Char(s, lo)
              ELSE IF lo > 1 /\ Char(s, lo - 1) \in SpaceChars THEN ""
              ELSE rep
    ELSE CollapseRange[s, lo, (lo + hi) \div 2, rep]
         \o CollapseRange[s, (lo + hi) \div 2 + 1, hi, rep]

CollapseF[s \in STRING, rep \in STRING] == CollapseRange[s, 1, Len(s), rep]

\* re.sub(r'\s+', rep, s)
CollapseSpace(s, rep) == CollapseF[s, rep]

KeepF[s \in STRING, keep \in SUBSET STRING] ==
    IF Len(s) = 0 THEN ""
    ELSE IF Len(s) = 1 THEN IF s \in keep THEN s ELSE ""
    ELSE KeepF[SubSeq(s, 1, Len(s) \div 2), keep]
         \o KeepF[SubSeq(s, Len(s) \div 2 + 1, Len(s)), keep]

\* re.sub(r'[^...]', '', s) for the character class `keep`
KeepOnly(s, keep) == KeepF[s, keep]

PrefixF[s \in STRING, n \in Nat] == SubSeq(s, 1, IF Len(s) < n THEN Len(s) ELSE n)

\* s[:n]
Prefix(s, n) == PrefixF[s, n]

JoinRange[parts \in Seq(STRING), lo \in Nat, hi \in Nat, sep \in STRING] ==
    IF lo > hi THEN ""
    ELSE IF lo = hi THEN parts[lo]
    ELSE JoinRange[parts, lo, (lo + hi) \div 2, sep] \o sep
         \o JoinRange[parts, (lo + hi) \div 2 + 1, hi, sep]

JoinF[parts \in Seq(STRING), sep \in STRING] == JoinRange[parts, 1, Len(parts), sep]

\* sep.join(parts)
Join(parts, sep) == JoinF[parts, sep]

AnyKeywordInF[keywords \in Seq(STRING), text \in STRING] ==
    \E k \in 1..Len(keywords) : Contains(text, keywords[k])

\* any(keyword in text for keyword in keywords)
AnyKeywordIn(keywords, text) == AnyKeywordInF[keywords, text]

-----------------------------------------------------------------------------
(* Reference tables.                                                       *)

\* CriteriaType
CULTURAL == "Cultural"
NATURAL == "Natural"
MIXED == "Mixed"
UNKNOWN == "Unknown"

\* Python's None, for the Optional[str] fields of StandardizedSite
None == "<None>"

\* the truth value Python gives an Optional[str]
Truthy(x) == x # None /\ x # ""


\* _load_country_mappings
country_mappings ==
    ("afghanistan" :> [iso |-> "AF", continent |-> "Asia", region |-> "South Asia"]) @@
    ("albania" :> [iso |-> "AL", continent |-> "Europe", region |-> "Southeast Europe"]) @@
    ("algeria" :> [iso |-> "DZ", continent |-> "Africa", region |-> "North Africa"]) @@
    ("argentina" :> [iso |-> "AR", continent |-> "South America", region |-> "South America"]) @@
    ("australia" :> [iso |-> "AU", continent |-> "Oceania", region |-> "Australia and New Zealand"]) @@
    ("austria" :> [iso |-> "AT", continent |-> "Europe", region |-> "Western Europe"]) @@
    ("bangladesh" :> [iso |-> "BD", continent |-> "Asia", region |-> "South Asia"]) @@
    ("belgium" :> [iso |-> "BE", continent |-> "Europe", region |-> "Western Europe"]) @@
    ("brazil" :> [iso |-> "BR", continent |-> "South America", region |-> "South America"]) @@
    ("cambodia" :> [iso |-> "KH", continent |-> "Asia", region |-> "Southeast Asia"]) @@
    ("canada" :> [iso |-> "CA", continent |-> "North America", region |-> "North America"]) @@
    ("china" :> [iso |-> "CN", continent |-> "Asia", region |-> "East Asia"]) @@
    ("colombia" :> [iso |-> "CO", continent |-> "South America", region |-> "South America"]) @@
    ("croatia" :> [iso |-> "HR", continent |-> "Europe", region |-> "Southeast Europe"]) @@
    ("czech republic" :> [iso |-> "CZ", continent |-> "Europe", region |-> "Eastern Europe"]) @@
    ("denmark" :> [iso |-> "DK", continent |-> "Europe", region |-> "Northern Europe"]) @@
    ("ecuador" :> [iso |-> "EC", continent |-> "South America", region |-> "South America"]) @@
    ("egypt" :> [iso |-> "EG", continent |-> "Africa", region |-> "North Africa"]) @@
    ("ethiopia" :> [iso |-> "ET", continent |-> "Africa", region |-> "East Africa"]) @@
    ("france" :> [iso |-> "FR", continent |-> "Europe", region |-> "Western Europe"]) @@
    ("germany" :> [iso |-> "DE", continent |-> "Europe", region |-> "Western Europe"]) @@
    ("greece" :> [iso |-> "GR", continent |-> "Europe", region |-> "Southern Europe"]) @@
    ("guatemala" :> [iso |-> "GT", continent |-> "North America", region |-> "Central America"]) @@
    ("india" :> [iso |-> "IN", continent |-> "Asia", region |-> "South Asia"]) @@
    ("indonesia" :> [iso |-> "ID", continent |-> "Asia", region |-> "Southeast Asia"]) @@
    ("iran" :> [iso |-> "IR", continent |-> "Asia", region |-> "Western Asia"]) @@
    ("iraq" :> [iso |-> "IQ", continent |-> "Asia", region |-> "Western Asia"]) @@
    ("italy" :> [iso |-> "IT", continent |-> "Europe", region |-> "Southern Europe"]) @@
    ("japan" :> [iso |-> "JP", continent |-> "Asia", region |-> "East Asia"]) @@
    ("jordan" :> [iso |-> "JO", continent |-> "Asia", region |-> "Western Asia"]) @@
    ("kenya" :> [iso |-> "KE", continent |-> "Africa", region |-> "East Africa"]) @@
    ("madagascar" :> [iso |-> "MG", continent |-> "Africa", region |-> "East Africa"]) @@
    ("malaysia" :> [iso |-> "MY", continent |-> "Asia", region |-> "Southeast Asia"]) @@
    ("mexico" :> [iso |-> "MX", continent |-> "North America", region |-> "North America"]) @@
    ("morocco" :> [iso |-> "MA", continent |-> "Africa", region |-> "North Africa"]) @@
    ("nepal" :> [iso |-> "NP", continent |-> "Asia", region |-> "South Asia"]) @@
    ("netherlands" :> [iso |-> "NL", continent |-> "Europe", region |-> "Western Europe"]) @@
    ("new zealand" :> [iso |-> "NZ", continent |-> "Oceania", region |-> "Australia and New Zealand"]) @@
    ("norway" :> [iso |-> "NO", continent |-> "Europe", region |-> "Northern Europe"]) @@
    ("pakistan" :> [iso |-> "PK", continent |-> "Asia", region |-> "South Asia"]) @@
    ("peru" :> [iso |-> "PE", continent |-> "South America", region |-> "South America"]) @@
    ("poland" :> [iso |-> "PL", continent |-> "Europe", region |-> "Eastern Europe"]) @@
    ("portugal" :> [iso |-> "PT", continent |-> "Europe", region |-> "Southern Europe"]) @@
    ("romania" :> [iso |-> "RO", continent |-> "Europe", region |-> "Eastern Europe"]) @@
    ("russia" :> [iso |-> "RU", continent |-> "Europe", region |-> "Eastern Europe"]) @@
    ("senegal" :> [iso |-> "SN", continent |-> "Africa", region |-> "West Africa"]) @@
    ("south africa" :> [iso |-> "ZA", continent |-> "Africa", region |-> "Southern Africa"]) @@
    ("spain" :> [iso |-> "ES", continent |-> "Europe", region |-> "Southern Europe"]) @@
    ("sri lanka" :> [iso |-> "LK", continent |-> "Asia", region |-> "South Asia"]) @@
    ("sweden" :> [iso |-> "SE", continent |-> "Europe", region |-> "Northern Europe"]) @@
    ("switzerland" :> [iso |-> "CH", continent |-> "Europe", region |-> "Western Europe"]) @@
    ("syria" :> [iso |-> "SY", continent |-> "Asia", region |-> "Western Asia"]) @@
    ("tanzania" :> [iso |-> "TZ", continent |-> "Africa", region |-> "East Africa"]) @@
    ("thailand" :> [iso |-> "TH", continent |-> "Asia", region |-> "Southeast Asia"]) @@
    ("tunisia" :> [iso |-> "TN", continent |-> "Africa", region |-> "North Africa"]) @@
    ("turkey" :> [iso |-> "TR", continent |-> "Asia", region |-> "Western Asia"]) @@
    ("ukraine" :> [iso |-> "UA", continent |-> "Europe", region |-> "Eastern Europe"]) @@
    ("united kingdom" :> [iso |-> "GB", continent |-> "Europe", region |-> "Northern Europe"]) @@
    ("united states" :> [iso |-> "US", continent |-> "North America", region |-> "North America"]) @@
    ("vietnam" :> [iso |-> "VN", continent |-> "Asia", region |-> "Southeast Asia"]) @@
    ("yemen" :> [iso |-> "YE", continent |-> "Asia", region |-> "Western Asia"]) @@
    ("zimbabwe" :> [iso |-> "ZW", continent |-> "Africa", region |-> "Southern Africa"])

\* _load_criteria_mappings
criteria_mappings ==
    ("i" :> [type |-> CULTURAL, description |-> "Masterpiece of human creative genius"]) @@
    ("ii" :> [type |-> CULTURAL, description |-> "Important interchange of human values"]) @@
    ("iii" :> [type |-> CULTURAL, description |-> "Testimony to cultural tradition or civilization"]) @@
    ("iv" :> [type |-> CULTURAL, description |-> "Outstanding example of architectural/technological ensemble"]) @@
    ("v" :> [type |-> CULTURAL, description |-> "Outstanding example of human settlement/land use"]) @@
    ("vi" :> [type |-> CULTURAL, description |-> "Associated with events/traditions/beliefs/artistic works"]) @@
    ("vii" :> [type |-> NATURAL, description |-> "Contains superlative natural phenomena"]) @@
    ("viii" :> [type |-> NATURAL, description |-> "Outstanding example of major stages of earth history"]) @@
    ("ix" :> [type |-> NATURAL, description |-> "Outstanding example of ecological/biological processes"]) @@
    ("x" :> [type |-> NATURAL, description |-> "Contains important/significant natural habitats for biodiversity"])

\* region_keywords of _infer_region_from_location, in the dict's insertion order
region_keywords == <<
    << "South Asia", <<"india", "pakistan", "bangladesh", "sri lanka", "nepal", "bhutan">> >>,
    << "Southeast Asia", <<"thailand", "vietnam", "cambodia", "laos", "myanmar", "malaysia", "singapore", "indonesia", "philippines">> >>,
    << "East Asia", <<"china", "japan", "korea", "mongolia", "taiwan">> >>,
    << "Western Asia", <<"turkey", "syria", "iraq", "iran", "lebanon", "jordan", "israel", "palestine">> >>,
    << "Western Europe", <<"france", "germany", "netherlands", "belgium", "switzerland", "austria">> >>,
    << "Southern Europe", <<"italy", "spain", "greece", "portugal", "malta", "croatia">> >>,
    << "Northern Europe", <<"norway", "sweden", "denmark", "finland", "iceland", "uk", "britain">> >>,
    << "Eastern Europe", <<"poland", "czech", "slovakia", "hungary", "romania", "bulgaria", "russia">> >>,
    << "North Africa", <<"egypt", "libya", "tunisia", "algeria", "morocco", "sudan">> >>,
    << "West Africa", <<"senegal", "mali", "ghana", "nigeria", "benin", "burkina faso">> >>,
    << "East Africa", <<"kenya", "tanzania", "ethiopia", "uganda", "madagascar">> >>,
    << "Southern Africa", <<"south africa", "zimbabwe", "botswana", "namibia", "zambia">> >> >>

\* endangered_keywords of _check_endangered_status
endangered_keywords == <<"endangered", "threat", "risk", "damage", "destruction", "conflict", "war">>

\* arch_keywords of _generate_tags
arch_keywords == <<
    << "temple", <<"temple", "shrine", "pagoda", "monastery">> >>,
    << "castle", <<"castle", "fortress", "fort", "palace">> >>,
    << "church", <<"church", "cathedral", "basilica", "abbey">> >>,
    << "ancient", <<"ancient", "prehistoric", "archaeological">> >>,
    << "historic_center", <<"historic center", "old town", "historic city">> >>,
    << "industrial", <<"industrial", "mining", "railway", "factory">> >> >>

\* nature_keywords of _generate_tags
nature_keywords == <<
    << "national_park", <<"national park", "park">> >>,
    << "mountain", <<"mountain", "mount", "peak", "range">> >>,
    << "forest", <<"forest", "rainforest", "woodland">> >>,
    << "marine", <<"marine", "reef", "ocean", "sea">> >>,
    << "desert", <<"desert">> >>,
    << "volcanic", <<"volcanic", "volcano">> >>,
    << "cave", <<"cave", "cavern", "grotto">> >> >>

-----------------------------------------------------------------------------
(* Raw input.  An entry of raw_data is a mapping or something else; under  *)
(* each of the five keys a mapping holds a string, a value that is not a   *)
(* string (v is then what str() makes of it), or nothing.                  *)

Str(s) == [t |-> "str", v |-> s]
NonStr(s) == [t |-> "other", v |-> s]
Absent == [t |-> "absent", v |-> ""]

Site(name, country, location, year, criteria) ==
    [mapping |-> TRUE, name |-> name, country |-> country, location |-> location,
     year |-> year, criteria |-> criteria]

\* an entry of the list that is no mapping (None, a string, a number)
NotAMapping ==
    [mapping |-> FALSE, name |-> Absent, country |-> Absent, location |-> Absent,
     year |-> Absent, criteria |-> Absent]

\* raw_site.get(key, default)
Get(raw_site, key, default) == IF raw_site[key].t = "absent" THEN default ELSE raw_site[key]

-----------------------------------------------------------------------------
(* Stage 1: cleaning.                                                      *)

\* unicodedata.normalize('NFKD', text): the identity on ASCII text
NFKD(text) == text

\* the character class [\w\s\-.,()\'\"/:&] of _normalize_unicode
SafeChars == WordChars \cup SpaceChars \cup SafePunctuation

NormalizeUnicodeF[text \in STRING] ==
    IF text = "" THEN text ELSE Strip(KeepOnly(NFKD(text), SafeChars))

\* _normalize_unicode
NormalizeUnicode(text) == NormalizeUnicodeF[text]

\* the strip, the two re.sub and _normalize_unicode applied to name, country and location
CleanField(text) == NormalizeUnicode(CollapseSpace(StripRefs(Strip(text)), " "))

\* _clean_data raises AttributeError: .strip() of a value that is no string
CleanRaises(raw_site) ==
    \/ ~raw_site.mapping
    \/ Get(raw_site, "name", Str("")).t = "other"
    \/ Get(raw_site, "country", Str("")).t = "other"
    \/ Get(raw_site, "location", Str("")).t = "other"
    \/ Get(raw_site, "criteria", Str("Unknown")).t = "other"

\* _clean_data, when it returns
CleanData(raw_site) ==
    Then(CleanField(Get(raw_site, "country", Str("")).v), LAMBDA country :
        [name |-> CleanField(Get(raw_site, "name", Str("")).v),
         country |-> country,
         location |-> CleanField(Get(raw_site, "location", Str(country)).v),
         year |-> Strip(Get(raw_site, "year", Str("Unknown")).v),
         criteria |-> StripRefs(Strip(Get(raw_site, "criteria", Str("Unknown")).v))])

-----------------------------------------------------------------------------
(* Stage 2: validation.                                                    *)

\* a faulty variant of _validate_cleaned_data: the country is not looked at
ValidateCleanedDataNameOnly(cleaned_site) ==
    IF cleaned_site.name = "" \/ Len(cleaned_site.name) < 3 THEN FALSE
    ELSE TRUE

\* _validate_cleaned_data
\* a faulty variant of _validate_cleaned_data: only the country is checked
ValidateCleanedDataCountryOnly(cleaned_site) ==
    IF cleaned_site.country = "" \/ Len(cleaned_site.country) < 2 THEN FALSE
    ELSE TRUE

ValidateCleanedData(cleaned_site) ==
    IF cleaned_site.name = "" \/ Len(cleaned_site.name) < 3 THEN FALSE
    ELSE IF cleaned_site.country = "" \/ Len(cleaned_site.country) < 2 THEN FALSE
    ELSE TRUE

-----------------------------------------------------------------------------
(* Stage 3: standardization.                                               *)

\* a faulty variant of _generate_site_id: the slice [:50] is missing
GenerateSiteIdUntruncated(name, country) ==
    CollapseSpace(KeepOnly(Lower(name \o "_" \o country), WordChars \cup SpaceChars), "_")

\* _generate_site_id
GenerateSiteId(name, country) ==
    Prefix(CollapseSpace(KeepOnly(Lower(name \o "_" \o country),
                                  WordChars \cup SpaceChars), "_"), 50)

\* prefixes and suffixes of _normalize_name
name_prefixes == <<"the ", "historic ", "archaeological ", "national park of ", "ruins of ">>
name_suffixes == <<" national park", " archaeological site", " historic site">>

\* the loop over prefixes[k..]
StripPrefixes[normalized \in STRING, k \in Nat] ==
    IF k > Len(name_prefixes) THEN normalized
    ELSE IF StartsWith(normalized, name_prefixes[k])
         THEN StripPrefixes[SubSeq(normalized, Len(name_prefixes[k]) + 1, Len(normalized)), k + 1]
         ELSE StripPrefixes[normalized, k + 1]

\* the loop over suffixes[k..]
StripSuffixes[normalized \in STRING, k \in Nat] ==
    IF k > Len(name_suffixes) THEN normalized
    ELSE IF EndsWith(normalized, name_suffixes[k])
         THEN StripSuffixes[SubSeq(normalized, 1, Len(normalized) - Len(name_suffixes[k])), k + 1]
         ELSE StripSuffixes[normalized, k + 1]

\* _normalize_name
NormalizeName(name) == Strip(StripSuffixes[StripPrefixes[Lower(name), 1], 1])

DigitVal(c) == (CHOOSE i \in 1..10 : Char(DigitChars, i) = c) - 1

\* int(s) for a string of decimal digits
ToInt[s \in STRING] ==
    IF Len(s) = 0 THEN 0
    ELSE 10 * ToInt[SubSeq(s, 1, Len(s) - 1)] + DigitVal(Char(s, Len(s)))

\* \b holds between positions i - 1 and i of s
WordBoundary(s, i) ==
    LET before == i > 1 /\ Char(s, i - 1) \in WordChars
        after == i <= Len(s) /\ Char(s, i) \in WordChars
    IN  before # after

\* r'\b(19|20)\d{2}\b' matches s at position i
YearMatchesAt(s, i) ==
    /\ i + 3 <= Len(s)
    /\ WordBoundary(s, i)
    /\ SubSeq(s, i, i + 1) \in {"19", "20"}
    /\ Char(s, i + 2) \in CharsOf(DigitChars)
    /\ Char(s, i + 3) \in CharsOf(DigitChars)
    /\ WordBoundary(s, i + 4)

ParseYearF[year_str \in STRING] ==
    IF year_str = "" \/ Lower(year_str) = "unknown" THEN 0
    ELSE LET hits == { i \in 1..Len(year_str) : YearMatchesAt(year_str, i) }
         IN  IF hits # {} THEN ToInt[SubSeq(year_str, Least(hits), Least(hits) + 3)]
             ELSE 0

\* a faulty variant of _parse_year: the pattern without its two \b
ParseYearInsideWord(year_str) ==
    IF year_str = "" \/ Lower(year_str) = "unknown" THEN 0
    ELSE LET hits == { i \in 1..(Len(year_str) - 3) :
                           /\ SubSeq(year_str, i, i + 1) \in {"19", "20"}
                           /\ Char(year_str, i + 2) \in CharsOf(DigitChars)
                           /\ Char(year_str, i + 3) \in CharsOf(DigitChars) }
         IN  IF hits # {} THEN ToInt[SubSeq(year_str, Least(hits), Least(hits) + 3)]
             ELSE 0

\* a parse that finds no year
ParseYearUnknown(year_str) == 0

\* _parse_year
ParseYear(year_str) == ParseYearF[year_str]

\* the end of the run of \w characters that holds position i
RunEnd(s, i) == Least({ j \in i..Len(s) : j = Len(s) \/ Char(s, j + 1) \notin WordChars })

\* the maximal runs of \w characters that start in lo..hi, left to right
WordRunsRange[s \in STRING, lo \in Nat, hi \in Nat] ==
    IF lo > hi THEN << >>
    ELSE IF lo = hi
         THEN IF Char(s, lo) \in WordChars /\ (lo = 1 \/ Char(s, lo - 1) \notin WordChars)
              THEN << SubSeq(s, lo, RunEnd(s, lo)) >>
              ELSE << >>
    ELSE WordRunsRange[s, lo, (lo + hi) \div 2] \o WordRunsRange[s, (lo + hi) \div 2 + 1, hi]

WordRuns[s \in STRING] == WordRunsRange[s, 1, Len(s)]

\* i{1,3}v?|vi{0,3}|i?x matches the whole of run
IsRomanRun(run) ==
    \/ run \in {"i", "ii", "iii"}
    \/ run \in {"iv", "iiv", "iiiv"}
    \/ run \in {"v", "vi", "vii", "viii"}
    \/ run \in {"x", "ix"}

\* [1-9]|10 matches the whole of run
IsNumberRun(run) == run \in CharsOf("123456789") \cup {"10"}

\* _convert_to_roman
ConvertToRoman(num) ==
    LET romans == <<"i", "ii", "iii", "iv", "v", "vi", "vii", "viii", "ix", "x">>
    IN  IF num \in 1..10 THEN romans[num] ELSE ToString(num)

\* re.findall(r'\b(?:i{1,3}v?|vi{0,3}|i?x)\b', text): between two \b a match of \w
\* characters is a whole run
FindRomans(text) == SelectSeq(WordRuns[text], IsRomanRun)

\* re.findall(r'\b([1-9]|10)\b', text)
FindNumbers(text) == SelectSeq(WordRuns[text], IsNumberRun)

\* [self._convert_to_roman(int(n)) for n in numbers if 1 <= int(n) <= 10]
RomansOf[numbers \in Seq(STRING)] ==
    IF numbers = << >> THEN << >>
    ELSE (IF ToInt[Head(numbers)] \in 1..10 THEN << ConvertToRoman(ToInt[Head(numbers)]) >>
          ELSE << >>) \o RomansOf[Tail(numbers)]

\* criteria_numbers of _parse_criteria
CriteriaNumbers[criteria_str \in STRING] ==
    LET found == FindRomans(Lower(criteria_str))
    IN  IF found = << >> THEN RomansOf[FindNumbers(criteria_str)] ELSE found

\* a faulty variant of that loop body: the type of the last code wins
NextCriteriaTypeLastWins(criteria_type, mapping_type) == mapping_type

\* the body of the for loop of _parse_criteria: the type after a code of type mapping_type
NextCriteriaType(criteria_type, mapping_type) ==
    IF criteria_type = UNKNOWN THEN mapping_type
    ELSE IF criteria_type # mapping_type THEN MIXED
    ELSE criteria_type

\* the for loop of _parse_criteria over criteria_numbers[k..]: the type it ends with
CriteriaTypeFrom[criteria_numbers \in Seq(STRING), k \in Nat, criteria_type \in STRING] ==
    IF k > Len(criteria_numbers) THEN criteria_type
    ELSE IF criteria_numbers[k] \notin DOMAIN criteria_mappings
         THEN CriteriaTypeFrom[criteria_numbers, k + 1, criteria_type]
    ELSE CriteriaTypeFrom[criteria_numbers, k + 1,
             NextCriteriaType(criteria_type, criteria_mappings[criteria_numbers[k]].type)]

\* the list descriptions that loop builds
Descriptions[criteria_numbers \in Seq(STRING)] ==
    IF criteria_numbers = << >> THEN << >>
    ELSE (IF Head(criteria_numbers) \in DOMAIN criteria_mappings
          THEN << criteria_mappings[Head(criteria_numbers)].description >> ELSE << >>)
         \o Descriptions[Tail(criteria_numbers)]

\* the return value of _parse_criteria when the early return is not taken
ParseResult[criteria_numbers \in Seq(STRING), descriptions \in Seq(STRING), criteria_str \in STRING] ==
    [type |-> CriteriaTypeFrom[criteria_numbers, 1, UNKNOWN],
     numbers |-> criteria_numbers,
     description |-> IF descriptions # << >> THEN Join(descriptions, "; ")
                     ELSE criteria_str]

ParseCriteriaF[criteria_str \in STRING] ==
    IF criteria_str = "" \/ Lower(criteria_str) = "unknown"
    THEN [type |-> UNKNOWN, numbers |-> << >>, description |-> "Unknown criteria"]
    ELSE Then(CriteriaNumbers[criteria_str], LAMBDA criteria_numbers :
             ParseResult[criteria_numbers, Descriptions[criteria_numbers], criteria_str])

\* a faulty variant of _parse_criteria: the descriptions are joined by ", "
ParseCriteriaJoinedByComma(criteria_str) ==
    Then(ParseCriteriaF[criteria_str], LAMBDA parsed :
        IF Descriptions[parsed.numbers] # << >>
        THEN [parsed EXCEPT !.description = Join(Descriptions[parsed.numbers], ", ")]
        ELSE parsed)

\* _parse_criteria
ParseCriteria(criteria_str) == ParseCriteriaF[criteria_str]

\* datetime.now().isoformat() at the n-th reading of the clock
IsoFormat(n) == "2024-12-19T10:30:0" \o ToString(n)

\* _standardize_data, the clock read for the n-th time
StandardizeData(cleaned_site, n) ==
    Then(ParseCriteria(cleaned_site.criteria), LAMBDA parsed :
        [id |-> GenerateSiteId(cleaned_site.name, cleaned_site.country),
         name |-> cleaned_site.name,
         normalized_name |-> NormalizeName(cleaned_site.name),
         country |-> cleaned_site.country,
         iso_country_code |-> None,
         region |-> None,
         continent |-> None,
         location |-> cleaned_site.location,
         coordinates |-> None,
         inscription_year |-> ParseYear(cleaned_site.year),
         criteria_type |-> parsed.type,
         criteria_numbers |-> parsed.numbers,
         criteria_description |-> parsed.description,
         endangered_status |-> FALSE,
         area_hectares |-> None,
         buffer_zone_hectares |-> None,
         description |-> None,
         tags |-> << >>,
         last_updated |-> IsoFormat(n),
         data_quality_score |-> 0,
         source_url |-> None])

-----------------------------------------------------------------------------
(* Stage 4: enrichment.                                                    *)

\* the for loop of _infer_region_from_location over region_keywords[k..]: the first
\* region with a keyword in location_lower, or None
InferRegionFrom[location_lower \in STRING, k \in Nat] ==
    IF k > Len(region_keywords) THEN None
    ELSE IF AnyKeywordIn(region_keywords[k][2], location_lower) THEN region_keywords[k][1]
    ELSE InferRegionFrom[location_lower, k + 1]

\* a faulty variant of _infer_region_from_location: the last region with a keyword
\* in the location
InferRegionFromLocationLastWins(location) ==
    LET hits == { k \in 1..Len(region_keywords) :
                      AnyKeywordIn(region_keywords[k][2], Lower(location)) }
    IN  IF hits = {} THEN None ELSE region_keywords[Greatest(hits)][1]

\* _infer_region_from_location
InferRegionFromLocation(location) == InferRegionFrom[Lower(location), 1]

\* _check_endangered_status
CheckEndangeredStatus(name, criteria) ==
    AnyKeywordIn(endangered_keywords, Lower(name \o " " \o criteria))

\* country_key of _enrich_data, from site.country.lower().strip()
CountryKey[stripped \in STRING] ==
    IF Contains(stripped, ",") THEN Strip(SplitFirst(stripped, ",")) ELSE stripped

\* country_variations of _enrich_data
CountryVariationsOf[country_key \in STRING] ==
    << country_key,
       Replace(country_key, "the ", ""),
       Replace(country_key, " of", ""),
       IF Contains(country_key, "(") THEN Strip(SplitFirst(country_key, "("))
       ELSE country_key >>

CountryVariations(country) == CountryVariationsOf[CountryKey[Strip(Lower(country))]]

\* a faulty variant of the loop: a hit leaves the region alone
WithCountryMappingNoRegion(site, country_variations) ==
    LET hits == { k \in 1..Len(country_variations) :
                      country_variations[k] \in DOMAIN country_mappings }
    IN  IF hits = {} THEN site
        ELSE [site EXCEPT
                 !.iso_country_code = country_mappings[country_variations[Least(hits)]].iso,
                 !.continent = country_mappings[country_variations[Least(hits)]].continent]

\* the for loop of _enrich_data over country_variations: the first variation of the
\* table sets three fields
\* a faulty variant of the table lookup: the continent of the row is not copied
WithCountryMappingNoContinent(site, country_variations) ==
    LET hits == { k \in 1..Len(country_variations) :
                      country_variations[k] \in DOMAIN country_mappings }
    IN  IF hits = {} THEN site
        ELSE [site EXCEPT
                 !.iso_country_code = country_mappings[country_variations[Least(hits)]].iso,
                 !.region = country_mappings[country_variations[Least(hits)]].region]

WithCountryMapping(site, country_variations) ==
    LET hits == { k \in 1..Len(country_variations) :
                      country_variations[k] \in DOMAIN country_mappings }
    IN  IF hits = {} THEN site
        ELSE [site EXCEPT
                 !.iso_country_code = country_mappings[country_variations[Least(hits)]].iso,
                 !.continent = country_mappings[country_variations[Least(hits)]].continent,
                 !.region = country_mappings[country_variations[Least(hits)]].region]

\* if not site.region and site.location: site.region = ...
WithInferredRegion(site) ==
    IF ~Truthy(site.region) /\ site.location # ""
    THEN [site EXCEPT !.region = InferRegionFromLocation(site.location)]
    ELSE site

\* a faulty variant: a keyword found flips the status the entity has
WithEndangeredStatusFlipped(site) ==
    [site EXCEPT !.endangered_status =
                     (site.endangered_status
                          # CheckEndangeredStatus(site.name, site.criteria_description))]

\* site.endangered_status = self._check_endangered_status(...)
WithEndangeredStatus(site) ==
    [site EXCEPT !.endangered_status =
                     CheckEndangeredStatus(site.name, site.criteria_description)]

\* _enrich_data, as a function of the site (the count it keeps is in the actions)
EnrichData(site) ==
    Then(Then(Then(CountryVariations(site.country),
                   LAMBDA country_variations : WithCountryMapping(site, country_variations)),
              WithInferredRegion),
         WithEndangeredStatus)

-----------------------------------------------------------------------------
(* Stage 5: quality score, in tenths.                                      *)

Points(passed) == IF passed THEN 1 ELSE 0

\* a faulty variant of _calculate_quality_score: the name has to be longer than 5
CalculateQualityScoreLongName(site) ==
      Points(site.name # "" /\ Len(site.name) > 5)
    + Points(Truthy(site.iso_country_code))
    + Points(Truthy(site.region))
    + Points(Truthy(site.continent))
    + Points(site.inscription_year > 0)
    + Points(site.criteria_type # UNKNOWN)
    + Points(site.criteria_numbers # << >>)
    + Points(site.location # site.country)
    + Points(Len(site.criteria_description) > 20)
    + Points(site.last_updated # "")

\* a faulty variant of _calculate_quality_score: the freshness point is missing
CalculateQualityScoreNoFreshness(site) ==
      Points(site.name # "" /\ Len(site.name) >= 5)
    + Points(Truthy(site.iso_country_code))
    + Points(Truthy(site.region))
    + Points(Truthy(site.continent))
    + Points(site.inscription_year > 0)
    + Points(site.criteria_type # UNKNOWN)
    + Points(site.criteria_numbers # << >>)
    + Points(site.location # site.country)
    + Points(Len(site.criteria_description) > 20)

\* _calculate_quality_score: score / max_score, as the number of tenths
CalculateQualityScore(site) ==
      Points(site.name # "" /\ Len(site.name) >= 5)
    + Points(Truthy(site.iso_country_code))
    + Points(Truthy(site.region))
    + Points(Truthy(site.continent))
    + Points(site.inscription_year > 0)
    + Points(site.criteria_type # UNKNOWN)
    + Points(site.criteria_numbers # << >>)
    + Points(site.location # site.country)
    + Points(Len(site.criteria_description) > 20)
    + Points(site.last_updated # "")

-----------------------------------------------------------------------------
(* Stage 6: tags.                                                          *)

\* the ASCII characters of the model in the order of their code points
AsciiOrder ==
    "\t\n \"&'()+,-./0123456789:<>ABCDEFGHIJKLMNOPQRSTUVWXYZ[]_abcdefghijklmnopqrstuvwxyz"

Ord(c) == CHOOSE i \in 1..Len(AsciiOrder) : Char(AsciiOrder, i) = c

\* a < b for Python strings: the first differing code point, or a proper prefix
StrLess(a, b) ==
    LET differ == { i \in 1..Len(a) : i <= Len(b) /\ Char(a, i) # Char(b, i) }
    IN  IF differ = {} THEN Len(a) < Len(b)
        ELSE Ord(Char(a, Least(differ))) < Ord(Char(b, Least(differ)))

\* the position of tag in sorted(list(tags))
Rank(tags, tag) == 1 + Cardinality({ u \in tags : StrLess(u, tag) })

\* sorted(list(tags)) of a set of strings
Sorted(tags) ==
    Then(tags, LAMBDA tagset :
        [k \in 1..Cardinality(tagset) |-> CHOOSE t \in tagset : Rank(tagset, t) = k])

\* the tags of the keyword table whose keywords occur in name_lower
KeywordTags(table, name_lower) ==
    { table[k][1] : k \in { j \in 1..Len(table) : AnyKeywordIn(table[j][2], name_lower) } }

\* the quality tier tag of _generate_tags
QualityTag(data_quality_score) ==
    IF data_quality_score >= 8 THEN "high_quality_data"
    ELSE IF data_quality_score >= 6 THEN "medium_quality_data"
    ELSE "low_quality_data"

\* a faulty variant of the time period tags: 1980 still counts as early
PeriodTagsEarlyThrough1980(inscription_year) ==
    IF inscription_year > 0
    THEN { ToString((inscription_year \div 10) * 10) \o "s",
           IF inscription_year <= 1980 THEN "early_inscription"
           ELSE IF inscription_year < 2000 THEN "mid_inscription"
           ELSE "recent_inscription" }
    ELSE {}

\* the time period tags of _generate_tags
PeriodTags(inscription_year) ==
    IF inscription_year > 0
    THEN { ToString((inscription_year \div 10) * 10) \o "s",
           IF inscription_year < 1980 THEN "early_inscription"
           ELSE IF inscription_year < 2000 THEN "mid_inscription"
           ELSE "recent_inscription" }
    ELSE {}

\* the set tags of _generate_tags
TagSet(site) ==
    {Lower(site.criteria_type)}
    \cup (IF Truthy(site.continent) THEN {Lower(site.continent)} ELSE {})
    \cup (IF Truthy(site.region) THEN {Replace(Lower(site.region), " ", "_")} ELSE {})
    \cup (IF Truthy(site.country) THEN {Replace(Lower(site.country), " ", "_")} ELSE {})
    \cup PeriodTags(site.inscription_year)
    \cup KeywordTags(arch_keywords, Lower(site.name))
    \cup KeywordTags(nature_keywords, Lower(site.name))
    \cup (IF site.endangered_status THEN {"endangered"} ELSE {})
    \cup {QualityTag(site.data_quality_score)}

\* a faulty variant of _generate_tags: the list is in descending order
GenerateTagsDescending(site) ==
    Then(Sorted(TagSet(site)), LAMBDA tags :
        [k \in 1..Len(tags) |-> tags[Len(tags) + 1 - k]])

\* _generate_tags
GenerateTags(site) == Sorted(TagSet(site))

-----------------------------------------------------------------------------
(* Dataset validation.                                                     *)

\* only ids repeated by the next entity of the list
DuplicateIdsOfNeighbours(sites) ==
    { sites[k].id : k \in { i \in 1..Len(sites) - 1 : sites[i + 1].id = sites[i].id } }

\* duplicates of validate_transformed_data, as the set the function makes of it
DuplicateIds(sites) ==
    { sites[k].id : k \in { i \in 1..Len(sites) :
                              \E j \in 1..Len(sites) : j # i /\ sites[j].id = sites[i].id } }

\* not getattr(s, field, None)
FieldMissing(site, field) == ~Truthy(site[field])

\* missing_count of validate_transformed_data for one of the required fields
MissingCount(sites, field) == Cardinality({ k \in 1..Len(sites) : FieldMissing(sites[k], field) })

\* s.data_quality_score < 0.5
LowQuality(site) == site.data_quality_score < 5

\* not s.region
NoRegion(site) == ~Truthy(site.region)

\* s.inscription_year > 0 and (s.inscription_year < 1900 or s.inscription_year > 2030)
InvalidYear(site) ==
    site.inscription_year > 0 /\ (site.inscription_year < 1900 \/ site.inscription_year > 2030)

\* low_quality_count
LowQualityCount(sites) == Cardinality({ k \in 1..Len(sites) : LowQuality(sites[k]) })

\* no_region_count
NoRegionCount(sites) == Cardinality({ k \in 1..Len(sites) : NoRegion(sites[k]) })

\* invalid_years
InvalidYears(sites) == Cardinality({ k \in 1..Len(sites) : InvalidYear(sites[k]) })

\* an entry of the errors or warnings list: its text, and for the duplicate error the
\* set of ids the text ends with (Python prints a set in no fixed order)
Finding(text, ids) == [text |-> text, ids |-> ids]

\* the error the duplicate check appends
DuplicateErrors(sites) ==
    IF DuplicateIds(sites) # {}
    THEN << Finding("Duplicate site IDs found: ", DuplicateIds(sites)) >>
    ELSE << >>

\* the error the required-field check appends for one field
MissingErrors(sites, field) ==
    IF MissingCount(sites, field) > 0
    THEN << Finding("Missing " \o field \o " in " \o ToString(MissingCount(sites, field))
                        \o " records", {}) >>
    ELSE << >>

\* the error the year check appends
YearErrors(sites) ==
    IF InvalidYears(sites) > 0
    THEN << Finding("Invalid inscription years in " \o ToString(InvalidYears(sites))
                        \o " records", {}) >>
    ELSE << >>

\* validation_results['errors'] when the function returns
ValidationErrors(sites) ==
    DuplicateErrors(sites) \o MissingErrors(sites, "id") \o MissingErrors(sites, "name")
        \o MissingErrors(sites, "country") \o YearErrors(sites)

\* validation_results['warnings']: count > len(sites) * 0.2 and count > len(sites) * 0.3
ValidationWarnings(sites) ==
    (IF 10 * LowQualityCount(sites) > 2 * Len(sites)
     THEN << Finding("High number of low-quality records: "
                         \o ToString(LowQualityCount(sites)), {}) >>
     ELSE << >>)
    \o (IF 10 * NoRegionCount(sites) > 3 * Len(sites)
        THEN << Finding("Many sites missing region data: "
                            \o ToString(NoRegionCount(sites)), {}) >>
        ELSE << >>)

\* sum([s.data_quality_score for s in sites]), in tenths
SumOfScores(sites) ==
    LET SumTo[k \in 0..Len(sites)] ==
            IF k = 0 THEN 0 ELSE SumTo[k - 1] + sites[k].data_quality_score
    IN  SumTo[Len(sites)]

\* a report that also fails on a warning
ValidationPassedWithoutWarnings(sites) ==
    /\ DuplicateIds(sites) = {}
    /\ \A field \in {"id", "name", "country"} : MissingCount(sites, field) = 0
    /\ InvalidYears(sites) = 0
    /\ ValidationWarnings(sites) = << >>

\* validation_results['validation_passed']: True until an error check sets it False
ValidationPassed(sites) ==
    ~(\/ DuplicateIds(sites) # {}
      \/ \E field \in {"id", "name", "country"} : MissingCount(sites, field) > 0
      \/ InvalidYears(sites) > 0)

\* validate_transformed_data; average_quality_score is the pair (sum in tenths, count),
\* the quotient the source takes, and 0 for no sites
ValidateTransformedData(sites) ==
    [total_sites |-> Len(sites),
     validation_passed |-> ValidationPassed(sites),
     errors |-> ValidationErrors(sites),
     warnings |-> ValidationWarnings(sites),
     quality_checks |->
         [duplicate_ids |-> Cardinality(DuplicateIds(sites)),
          missing_required_fields |->
              MissingCount(sites, "id") + MissingCount(sites, "name")
                  + MissingCount(sites, "country"),
          low_quality_sites |-> LowQualityCount(sites),
          missing_region_data |-> NoRegionCount(sites),
          invalid_years |-> InvalidYears(sites),
          average_quality_score |->
              IF sites # << >> THEN << SumOfScores(sites), Len(sites) >> ELSE << 0, 1 >>]]

-----------------------------------------------------------------------------
(* The entries transform_pipeline is given in the model.                   *)

Angkor ==
    Site(Str("Angkor Archaeological Park"), Str("Cambodia"), Str("Siem Reap Province"),
         Str("1992"), Str("Cultural criteria (i)(ii)(iii)(iv)"))

\* the same site from another source: references, stray blanks, a numeric year
AngkorAgain ==
    Site(Str("  Angkor  Archaeological Park[1] "), Str("Cambodia [note 2]"), Absent,
         NonStr("1992"), Str("Natural criteria (vii)"))

\* nothing to enrich, every optional key missing
Atlantis == Site(Str("Atlantis"), Str("Nowhere"), Absent, Absent, Absent)

\* nothing to enrich, a location of its own
AtlantisCity == Site(Str("Atlantis"), Str("Nowhere"), Str("Lost City"), Str("Unknown"), Str("Unknown"))

\* nothing to enrich; cleaning drops the + and leaves two blanks in the country
PitchLake == Site(Str("Pitch Lake"), Str("Trinidad + Tobago"), Absent, Str("n/a"), Str("unknown"))

\* a country of the table, no year and no criteria
Petra == Site(Str("Petra"), Str("Jordan"), Str("Ma'an Governorate"), Absent, Absent)

\* an id longer than 50 characters, criteria of both types
Lalibela ==
    Site(Str("Rock-Hewn Churches and Monastic Landscape of Lalibela"), Str("Ethiopia"),
         Str("Amhara Region"), Str("inscribed 1978"),
         Str("Cultural criteria (i)(ii) and Natural criteria (vii)"))

\* the name is too short
ShortName == Site(Str("AB"), Str("Cambodia"), Str("Phnom Penh"), Str("1992"), Str("(i)"))

\* the country is too short
ShortCountry == Site(Str("Abu Simbel"), Str("E"), Absent, Str("1979"), Str("(i)(iii)(vi)"))

\* the name is None
NameIsNone == Site(NonStr("None"), Str("Cambodia"), Absent, Str("1992"), Str("(i)"))

\* the country cell of the source table reads Unknown
CountryUnknown == Site(Str("Old Fortress"), Str("Unknown"), Absent, Str("2004"), Str("(iv)"))

\* the country text is the text of a quality label
CountryQuality == Site(Str("Old Fortress"), Str("High Quality Data"), Absent, Absent, Absent)

RawCatalogue ==
    { Angkor, AngkorAgain, Atlantis, AtlantisCity, PitchLake, Petra, Lalibela,
      ShortName, ShortCountry, NameIsNone, NotAMapping, CountryUnknown, CountryQuality }


-----------------------------------------------------------------------------
(* transform_pipeline.                                                     *)

\* enriched_site.data_quality_score = quality_score
WithQualityScore(site) == [site EXCEPT !.data_quality_score = CalculateQualityScore(site)]

\* enriched_site.tags = self._generate_tags(enriched_site)
WithTags(site) == [site EXCEPT !.tags = GenerateTags(site)]

\* a faulty variant of the append: the entity is put in front
PrependSite(sites, enriched_site) == << enriched_site >> \o sites

\* standardized_sites.append(enriched_site)
AppendSite(sites, enriched_site) == Append(sites, enriched_site)

\* stages 3 to 6 of the try block, for the n-th reading of the clock
TransformCleaned(cleaned_site, n) ==
    Then(Then(Then(Then(cleaned_site, LAMBDA cleaned : StandardizeData(cleaned, n)),
                   EnrichData),
              WithQualityScore),
         WithTags)

\* _clean_data of every entry of the catalogue on which it returns, computed once
CleanedCatalogue ==
    { << raw_site, CleanData(raw_site) >> :
          raw_site \in { r \in RawCatalogue : ~CleanRaises(r) } }

\* cleaned_site = self._clean_data(raw_site)
Cleaned(raw_site) == (CHOOSE e \in CleanedCatalogue : e[1] = raw_site)[2]

\* stages 3 to 6 for every entry of the catalogue that passes validation and every
\* reading of the clock, computed once
TransformedCatalogue ==
    { << e[1], n, TransformCleaned(e[2], n) >> :
          e \in { c \in CleanedCatalogue : ValidateCleanedData(c[2]) },
          n \in 1..MaxProcessed }

\* enriched_site when it is appended, for the n-th reading of the clock
TransformSite(raw_site, n) ==
    (CHOOSE e \in TransformedCatalogue : e[1] = raw_site /\ e[2] = n)[3]

\* no pure function is under unit check
NoUnit == [fn |-> "none", arg |-> "", done |-> FALSE, ret |-> "", after |-> ""]

\* __init__
Init ==
    /\ transformation_stats =
           [processed |-> 0, transformed |-> 0, enriched |-> 0, errors |-> 0,
            quality_scores |-> << >>]
    /\ clock = 0
    /\ raw_data = << >>
    /\ idx = 0
    /\ standardized_sites = << >>
    /\ pc = "idle"
    /\ outcome = "none"
    /\ returned = << >>
    /\ unit = NoUnit

\* the entry the for loop is at
Current == raw_data[idx + 1]

InLoop == pc = "loop" /\ idx < Len(raw_data)

\* a faulty variant of the entry: the call starts its statistics afresh
CallOnNewStats ==
    /\ pc = "idle"
    /\ \E n \in 0..MaxProcessed :
           \E batch \in [1..n -> RawCatalogue] : raw_data' = batch
    /\ transformation_stats' =
           [processed |-> 0, transformed |-> 0, enriched |-> 0, errors |-> 0,
            quality_scores |-> << >>]
    /\ idx' = 0
    /\ standardized_sites' = << >>
    /\ pc' = "loop"
    /\ outcome' = "none"
    /\ UNCHANGED << clock, returned, unit >>

\* transform_pipeline is called with a list: standardized_sites = []
Call ==
    /\ pc = "idle"
    /\ \E n \in 0..(MaxProcessed - transformation_stats.processed) :
           \E batch \in [1..n -> RawCatalogue] : raw_data' = batch
    /\ idx' = 0
    /\ standardized_sites' = << >>
    /\ pc' = "loop"
    /\ outcome' = "none"
    /\ UNCHANGED << transformation_stats, clock, returned, unit >>

\* an iteration on an entry without .get: _clean_data raises, and so does the
\* raw_site.get of the except clause, before errors is counted; the call is left
LoopHandlerRaises ==
    /\ InLoop
    /\ ~Current.mapping
    /\ transformation_stats' =
           [transformation_stats EXCEPT !.processed = @ + 1]
    /\ idx' = idx + 1
    /\ standardized_sites' = << >>
    /\ pc' = "idle"
    /\ outcome' = "raised"
    /\ UNCHANGED << clock, raw_data, returned, unit >>

\* an iteration in which _clean_data raises on a mapping: the except clause
LoopCleanRaises ==
    /\ InLoop
    /\ Current.mapping
    /\ CleanRaises(Current)
    /\ transformation_stats' =
           [transformation_stats EXCEPT !.processed = @ + 1, !.errors = @ + 1]
    /\ idx' = idx + 1
    /\ UNCHANGED << clock, raw_data, standardized_sites, pc, outcome, returned, unit >>

\* an iteration that stops at validation: errors += 1; continue
LoopInvalid ==
    /\ InLoop
    /\ ~CleanRaises(Current)
    /\ ~ValidateCleanedData(Cleaned(Current))
    /\ transformation_stats' =
           [transformation_stats EXCEPT !.processed = @ + 1, !.errors = @ + 1]
    /\ idx' = idx + 1
    /\ UNCHANGED << clock, raw_data, standardized_sites, pc, outcome, returned, unit >>

\* an iteration that runs all six stages
LoopTransformed ==
    /\ InLoop
    /\ ~CleanRaises(Current)
    /\ ValidateCleanedData(Cleaned(Current))
    /\ \E enriched_site \in {TransformSite(Current, clock + 1)} :
           /\ transformation_stats' =
                  [transformation_stats EXCEPT
                      !.processed = @ + 1,
                      !.enriched = @ + 1,
                      !.quality_scores = Append(@, enriched_site.data_quality_score),
                      !.transformed = @ + 1]
           /\ standardized_sites' = AppendSite(standardized_sites, enriched_site)
    /\ clock' = clock + 1
    /\ idx' = idx + 1
    /\ UNCHANGED << raw_data, pc, outcome, returned, unit >>

\* the loop is over: return standardized_sites
Return ==
    /\ pc = "loop"
    /\ idx = Len(raw_data)
    /\ returned' = standardized_sites
    /\ pc' = "idle"
    /\ outcome' = "returned"
    /\ UNCHANGED << transformation_stats, clock, raw_data, idx, standardized_sites, unit >>

Next ==
    \/ Call
    \/ LoopHandlerRaises
    \/ LoopCleanRaises
    \/ LoopInvalid
    \/ LoopTransformed
    \/ Return

Spec == Init /\ [][Next]_vars

-----------------------------------------------------------------------------
(* Unit check of _calculate_quality_score: the function is applied to one  *)
(* entity, whose fields are drawn independently.                           *)

\* entities on either side of each of the ten checks
ScoreSites ==
    { [id |-> "site", name |-> name, normalized_name |-> Lower(name),
       country |-> "Cambodia", iso_country_code |-> iso, region |-> region,
       continent |-> continent, location |-> location, coordinates |-> None,
       inscription_year |-> year, criteria_type |-> type, criteria_numbers |-> numbers,
       criteria_description |-> description, endangered_status |-> FALSE,
       area_hectares |-> None, buffer_zone_hectares |-> None, description |-> None,
       tags |-> << >>, last_updated |-> updated, data_quality_score |-> 0,
       source_url |-> None] :
          name \in {"", "Abcd", "Abcde"},
          iso \in {None, "", "KH"},
          region \in {None, "Southeast Asia"},
          continent \in {None, "Asia"},
          year \in {-1, 0, 1992},
          type \in {UNKNOWN, CULTURAL},
          numbers \in {<< >>, <<"i">>},
          location \in {"Cambodia", "Siem Reap"},
          description \in {"Twenty characters ok", "Twenty-one characters"},
          updated \in {"", IsoFormat(1)} }

InitScore ==
    /\ transformation_stats =
           [processed |-> 0, transformed |-> 0, enriched |-> 0, errors |-> 0,
            quality_scores |-> << >>]
    /\ clock = 0
    /\ raw_data = << >>
    /\ idx = 0
    /\ standardized_sites = << >>
    /\ pc = "idle"
    /\ outcome = "none"
    /\ returned = << >>
    /\ unit \in { [fn |-> "score", arg |-> site, done |-> FALSE, ret |-> 0, after |-> site] :
                      site \in ScoreSites }

\* quality_score = self._calculate_quality_score(site); the function assigns to no
\* attribute of site, so the entity after the call is the entity before it
CallCalculateQualityScore ==
    /\ unit.fn = "score"
    /\ ~unit.done
    /\ unit' = [unit EXCEPT !.done = TRUE,
                            !.ret = CalculateQualityScore(unit.arg),
                            !.after = unit.arg]
    /\ UNCHANGED << transformation_stats, clock, raw_data, idx, standardized_sites,
                    pc, outcome, returned >>

NextScore == CallCalculateQualityScore

SpecScore == InitScore /\ [][NextScore]_vars

-----------------------------------------------------------------------------
(* Unit check of _parse_criteria: the function is applied to one criteria  *)
(* text, put together from pieces.                                         *)

CriteriaPieces ==
    {"(i)", "(iv)", "(vii)", "(x)", "(iiv)", "(I)", " and ", "Natural criteria ",
     " 3", " 8", "Unknown"}

\* the texts of at most n pieces
CriteriaTextsOf[n \in Nat] ==
    IF n = 0 THEN {""}
    ELSE CriteriaTextsOf[n - 1]
         \cup { text \o piece : text \in CriteriaTextsOf[n - 1], piece \in CriteriaPieces }

\* the example of the specification
MixedExample == "Cultural criteria (i)(ii) and Natural criteria (vii)"

CriteriaTexts == CriteriaTextsOf[MaxPieces] \cup {MixedExample}

InitCriteria ==
    /\ transformation_stats =
           [processed |-> 0, transformed |-> 0, enriched |-> 0, errors |-> 0,
            quality_scores |-> << >>]
    /\ clock = 0
    /\ raw_data = << >>
    /\ idx = 0
    /\ standardized_sites = << >>
    /\ pc = "idle"
    /\ outcome = "none"
    /\ returned = << >>
    /\ unit \in { [fn |-> "criteria", arg |-> text, done |-> FALSE, ret |-> "", after |-> text] :
                      text \in CriteriaTexts }

\* criteria_type, criteria_numbers, criteria_description = self._parse_criteria(text)
CallParseCriteria ==
    /\ unit.fn = "criteria"
    /\ ~unit.done
    /\ unit' = [unit EXCEPT !.done = TRUE, !.ret = ParseCriteria(unit.arg)]
    /\ UNCHANGED << transformation_stats, clock, raw_data, idx, standardized_sites,
                    pc, outcome, returned >>

NextCriteria == CallParseCriteria

SpecCriteria == InitCriteria /\ [][NextCriteria]_vars

-----------------------------------------------------------------------------
(* main: one call of transform_pipeline on a new pipeline, then            *)
(* validate_transformed_data on the list it returned.                      *)

\* the new pipeline enters transform_pipeline with its argument
InitMain ==
    /\ transformation_stats =
           [processed |-> 0, transformed |-> 0, enriched |-> 0, errors |-> 0,
            quality_scores |-> << >>]
    /\ clock = 0
    /\ raw_data \in UNION { [1..n -> RawCatalogue] : n \in 0..MaxProcessed }
    /\ idx = 0
    /\ standardized_sites = << >>
    /\ pc = "loop"
    /\ outcome = "none"
    /\ returned = << >>
    /\ unit = NoUnit

\* validation_results = pipeline.validate_transformed_data(standardized_sites)
CallValidateReturned ==
    /\ pc = "idle"
    /\ outcome = "returned"
    /\ unit.fn = "none"
    /\ unit' = [fn |-> "validate", arg |-> returned, done |-> TRUE,
                ret |-> ValidateTransformedData(returned), after |-> returned]
    /\ UNCHANGED << transformation_stats, clock, raw_data, idx, standardized_sites,
                    pc, outcome, returned >>

NextMain ==
    \/ LoopHandlerRaises
    \/ LoopCleanRaises
    \/ LoopInvalid
    \/ LoopTransformed
    \/ Return
    \/ CallValidateReturned

SpecMain == InitMain /\ [][NextMain]_vars

-----------------------------------------------------------------------------
(* Unit check of validate_transformed_data: the function is applied to a   *)
(* collection of entities on either side of each of its checks.            *)

\* an entity with the fields the function reads as given
DatasetSite(id, name, country, region, inscription_year, data_quality_score) ==
    [id |-> id, name |-> name, normalized_name |-> Lower(name), country |-> country,
     iso_country_code |-> None, region |-> region, continent |-> None,
     location |-> country, coordinates |-> None, inscription_year |-> inscription_year,
     criteria_type |-> UNKNOWN, criteria_numbers |-> << >>,
     criteria_description |-> "Unknown criteria", endangered_status |-> FALSE,
     area_hectares |-> None, buffer_zone_hectares |-> None, description |-> None,
     tags |-> << >>, last_updated |-> IsoFormat(1),
     data_quality_score |-> data_quality_score, source_url |-> None]

DatasetSites ==
    { DatasetSite("angkor_cambodia", "Angkor", "Cambodia", "Southeast Asia", 1992, 10),
      DatasetSite("angkor_cambodia", "Angkor Wat", "Cambodia", "Southeast Asia", 2030, 9),
      DatasetSite("", "Petra", "Jordan", "Western Asia", 1900, 6),
      DatasetSite("_jordan", "", "Jordan", None, 0, 4),
      DatasetSite("timbuktu_", "Timbuktu", "", "West Africa", 2031, 5),
      DatasetSite("old_town_xy", "Old Town", "Xy", None, 1899, 2),
      DatasetSite("atlantis_nowhere", "Atlantis", "Nowhere", None, 0, 4) }

\* the collections of at most n entities
DatasetsOf[n \in Nat] ==
    IF n = 0 THEN { << >> }
    ELSE DatasetsOf[n - 1]
         \cup { Append(sites, site) : sites \in DatasetsOf[n - 1], site \in DatasetSites }

InitValidate ==
    /\ transformation_stats =
           [processed |-> 0, transformed |-> 0, enriched |-> 0, errors |-> 0,
            quality_scores |-> << >>]
    /\ clock = 0
    /\ raw_data = << >>
    /\ idx = 0
    /\ standardized_sites = << >>
    /\ pc = "idle"
    /\ outcome = "none"
    /\ returned = << >>
    /\ unit \in { [fn |-> "validate", arg |-> sites, done |-> FALSE, ret |-> "", after |-> sites] :
                      sites \in DatasetsOf[MaxSites] }

\* validation_results = self.validate_transformed_data(sites); the function assigns
\* to nothing but its own validation_results
CallValidateTransformedData ==
    /\ unit.fn = "validate"
    /\ ~unit.done
    /\ unit' = [unit EXCEPT !.done = TRUE, !.ret = ValidateTransformedData(unit.arg)]
    /\ UNCHANGED << transformation_stats, clock, raw_data, idx, standardized_sites,
                    pc, outcome, returned >>

NextValidate == CallValidateTransformedData

SpecValidate == InitValidate /\ [][NextValidate]_vars

-----------------------------------------------------------------------------
(* Unit check of _enrich_data: the function is applied to an entity as     *)
(* _standardize_data builds it, and then again to the entity it returned.  *)

\* a new pipeline on which transform_pipeline has not been called
NewPipeline ==
    /\ transformation_stats =
           [processed |-> 0, transformed |-> 0, enriched |-> 0, errors |-> 0,
            quality_scores |-> << >>]
    /\ clock = 0
    /\ raw_data = << >>
    /\ idx = 0
    /\ standardized_sites = << >>
    /\ pc = "idle"
    /\ outcome = "none"
    /\ returned = << >>

\* country texts on either side of each variation of the lookup
EnrichCountries ==
    { "Cambodia", "The Netherlands", "United States of", "Iran (Islamic Republic of)",
      "France, Spain", "Korea, Republic of", "The United States of America",
      "Netherlands (the Kingdom of the)", "Nowhere" }

EnrichLocations ==
    { "", "Siem Reap Province", "Northern Thailand", "China and India", "Ukraine" }

EnrichNames == { "Old Town", "Reef at Risk" }

EnrichSites ==
    { StandardizeData([name |-> name, country |-> country, location |-> location,
                       year |-> "Unknown", criteria |-> "Unknown"], 1) :
          name \in EnrichNames, country \in EnrichCountries, location \in EnrichLocations }

InitEnrich ==
    /\ NewPipeline
    /\ unit \in { [fn |-> "enrich", arg |-> site, done |-> FALSE, ret |-> site, after |-> site] :
                      site \in EnrichSites }

\* enriched_site = self._enrich_data(standardized_site): the entity is changed in
\* place and returned; after is the entity once the first call has returned
CallEnrichData ==
    /\ unit.fn = "enrich"
    /\ ~unit.done
    /\ unit' = [unit EXCEPT !.fn = "enrich_again",
                            !.ret = EnrichData(unit.arg),
                            !.after = EnrichData(unit.arg)]
    /\ transformation_stats' =
           [transformation_stats EXCEPT !.enriched = transformation_stats.enriched + 1]
    /\ UNCHANGED << clock, raw_data, idx, standardized_sites, pc, outcome, returned >>

\* self._enrich_data(enriched_site): the second application, to the entity the first
\* one returned
CallEnrichDataAgain ==
    /\ unit.fn = "enrich_again"
    /\ ~unit.done
    /\ unit' = [unit EXCEPT !.done = TRUE, !.ret = EnrichData(unit.after)]
    /\ transformation_stats' =
           [transformation_stats EXCEPT !.enriched = transformation_stats.enriched + 1]
    /\ UNCHANGED << clock, raw_data, idx, standardized_sites, pc, outcome, returned >>

NextEnrich ==
    \/ CallEnrichData
    \/ CallEnrichDataAgain

SpecEnrich == InitEnrich /\ [][NextEnrich]_vars

-----------------------------------------------------------------------------
(* Unit check of _normalize_name: the function is applied to a name with   *)
(* none, one or two of the listed prefixes and suffixes around a core.      *)

NameTexts ==
    { first \o second \o core \o inner \o last :
          first \in { "", "The " },
          second \in { "", "Historic ", "Ruins of " },
          core \in { "Petra", "Old Town" },
          inner \in { "", " Historic Site", " Archaeological Site" },
          last \in { "", " National Park" } }

InitName ==
    /\ NewPipeline
    /\ unit \in { [fn |-> "name", arg |-> name, done |-> FALSE, ret |-> "", after |-> name] :
                      name \in NameTexts }

\* normalized_name = self._normalize_name(cleaned_site['name'])
CallNormalizeName ==
    /\ unit.fn = "name"
    /\ ~unit.done
    /\ unit' = [unit EXCEPT !.done = TRUE, !.ret = NormalizeName(unit.arg)]
    /\ UNCHANGED << transformation_stats, clock, raw_data, idx, standardized_sites,
                    pc, outcome, returned >>

NextName == CallNormalizeName

SpecName == InitName /\ [][NextName]_vars

-----------------------------------------------------------------------------
(* Unit check of _generate_tags: the function is applied to an entity that  *)
(* is enriched and scored, with years on either side of each era.           *)

TagYears == { 0, 1979, 1980, 1992, 1999, 2000 }

TagSites ==
    { [DatasetSite("site", name, country, geography[2], inscription_year, data_quality_score)
           EXCEPT !.continent = geography[1],
                  !.criteria_type = status[1],
                  !.endangered_status = status[2]] :
          name \in { "Old Town", "Mount Reef Temple" },
          country \in { "Sri Lanka", "South Asia" },
          geography \in { << None, None >>, << "Asia", "South Asia" >> },
          inscription_year \in TagYears,
          data_quality_score \in { 5, 8 },
          status \in { << CULTURAL, FALSE >>, << UNKNOWN, TRUE >> } }

InitTags ==
    /\ NewPipeline
    /\ unit \in { [fn |-> "tags", arg |-> site, done |-> FALSE, ret |-> << >>, after |-> site] :
                      site \in TagSites }

\* enriched_site.tags = self._generate_tags(enriched_site), up to the assignment: the
\* function adds to its own set and assigns to no attribute of site
CallGenerateTags ==
    /\ unit.fn = "tags"
    /\ ~unit.done
    /\ unit' = [unit EXCEPT !.done = TRUE,
                            !.ret = GenerateTags(unit.arg),
                            !.after = unit.arg]
    /\ UNCHANGED << transformation_stats, clock, raw_data, idx, standardized_sites,
                    pc, outcome, returned >>

NextTags == CallGenerateTags

SpecTags == InitTags /\ [][NextTags]_vars

-----------------------------------------------------------------------------
(* The run statistics in the hands of a caller: transform_pipeline calls   *)
(* on one pipeline, and a caller that asks for the statistics between two  *)
(* calls and keeps what it was given.  unit is the caller's variable: arg   *)
(* names the accessor, ret is the value as it was when handed out, after    *)
(* holds the entries of the caller's own dict.                              *)

\* get_transformation_stats of the scraper: the pipeline's dict itself is returned
GetTransformationStats ==
    /\ pc = "idle"
    /\ unit.fn = "none"
    /\ unit' = [fn |-> "stats", arg |-> "get_transformation_stats", done |-> FALSE,
                ret |-> transformation_stats, after |-> transformation_stats]
    /\ UNCHANGED << transformation_stats, clock, raw_data, idx, standardized_sites,
                    pc, outcome, returned >>

\* 'transformation_stats': self.transformation_stats.copy() of
\* _generate_summary_stats: a new dict with the entries of the pipeline's dict, the
\* list quality_scores being the pipeline's list
GenerateSummaryStats ==
    /\ pc = "idle"
    /\ unit.fn = "none"
    /\ unit' = [fn |-> "stats", arg |-> "summary", done |-> FALSE,
                ret |-> transformation_stats, after |-> transformation_stats]
    /\ UNCHANGED << transformation_stats, clock, raw_data, idx, standardized_sites,
                    pc, outcome, returned >>

\* what the caller reads in the value it holds: the pipeline's dict, or its own dict
\* whose quality_scores is the pipeline's list
StatsSeen ==
    IF unit.arg = "get_transformation_stats" THEN transformation_stats
    ELSE [unit.after EXCEPT !.quality_scores = transformation_stats.quality_scores]

\* the caller does stats['errors'] += 1 on the value it holds
CallerCountsError ==
    /\ pc = "idle"
    /\ unit.fn = "stats"
    /\ ~unit.done
    /\ IF unit.arg = "get_transformation_stats"
       THEN /\ transformation_stats' = [transformation_stats EXCEPT !.errors = @ + 1]
            /\ unit' = [unit EXCEPT !.done = TRUE]
       ELSE /\ transformation_stats' = transformation_stats
            /\ unit' = [unit EXCEPT !.done = TRUE, !.after.errors = @ + 1]
    /\ UNCHANGED << clock, raw_data, idx, standardized_sites, pc, outcome, returned >>

\* the caller does stats['quality_scores'].append(0.0) on the value it holds
CallerAppendsScore ==
    /\ pc = "idle"
    /\ unit.fn = "stats"
    /\ ~unit.done
    /\ transformation_stats' = [transformation_stats EXCEPT !.quality_scores = Append(@, 0)]
    /\ unit' = [unit EXCEPT !.done = TRUE]
    /\ UNCHANGED << clock, raw_data, idx, standardized_sites, pc, outcome, returned >>

NextStats ==
    \/ Next
    \/ GetTransformationStats
    \/ GenerateSummaryStats
    \/ CallerCountsError
    \/ CallerAppendsScore

SpecStats == Init /\ [][NextStats]_vars

-----------------------------------------------------------------------------
(* The calls a holder of one pipeline makes: transform_pipeline, and        *)
(* between two of them export_to_formats, _generate_summary_stats or        *)
(* validate_transformed_data on the list returned last.                     *)

\* export_to_formats(sites): the files are written from the entities and from the
\* summary statistics; the pipeline's statistics are read, not assigned
ExportToFormats ==
    /\ pc = "idle"
    /\ unit.fn = "none"
    /\ unit' = [fn |-> "export", arg |-> returned, done |-> TRUE,
                ret |-> [total_sites |-> Len(returned),
                         transformation_stats |-> transformation_stats],
                after |-> returned]
    /\ UNCHANGED << transformation_stats, clock, raw_data, idx, standardized_sites,
                    pc, outcome, returned >>

NextCalls ==
    \/ Next
    \/ ExportToFormats
    \/ GenerateSummaryStats
    \/ CallValidateReturned

SpecCalls == Init /\ [][NextCalls]_vars

-----------------------------------------------------------------------------
(* Unit check of _clean_data: the function is applied to a mapping in which *)
(* each of the five keys is absent, holds a string, or holds another value. *)

CleanSites ==
    { Site(name, country, location, year, criteria) :
          name \in { Absent, Str(" Petra [1] "), NonStr("None") },
          country \in { Absent, Str("Jordan"), NonStr("962") },
          location \in { Absent, Str("Wadi  Musa"), NonStr("None") },
          year \in { Absent, Str(" 1985 "), NonStr("1985") },
          criteria \in { Absent, Str("(i)(iii)[2] "), NonStr("3") } }

\* what a call that raised leaves in place of the cleaned record
NoCleaned == [name |-> "", country |-> "", location |-> "", year |-> "", criteria |-> ""]

InitClean ==
    /\ NewPipeline
    /\ unit \in { [fn |-> "clean", arg |-> raw_site, done |-> FALSE,
                   ret |-> [raises |-> FALSE, cleaned |-> NoCleaned], after |-> raw_site] :
                      raw_site \in CleanSites }

\* cleaned_site = self._clean_data(raw_site): the record is returned, or the
\* AttributeError of .strip() on a value that is no string leaves the function
CallCleanData ==
    /\ unit.fn = "clean"
    /\ ~unit.done
    /\ unit' = [unit EXCEPT
                   !.done = TRUE,
                   !.ret = IF CleanRaises(unit.arg)
                           THEN [raises |-> TRUE, cleaned |-> NoCleaned]
                           ELSE [raises |-> FALSE, cleaned |-> CleanData(unit.arg)]]
    /\ UNCHANGED << transformation_stats, clock, raw_data, idx, standardized_sites,
                    pc, outcome, returned >>

NextClean == CallCleanData

SpecClean == InitClean /\ [][NextClean]_vars

-----------------------------------------------------------------------------
(* Unit check of _parse_year: the function is applied to a year text, and   *)
(* a record with that year text is taken through the stages and validated.  *)

YearPieces ==
    { "", "1992", "-1992", "1899", "1900", "2030", "2031", "2099", "2100", "19925", "x", "-",
      " ", "Unknown", "unknown", "UNKNOWN" }

YearTexts == { first \o second : first \in YearPieces, second \in YearPieces }

InitYear ==
    /\ NewPipeline
    /\ unit \in { [fn |-> "year", arg |-> year_str, done |-> FALSE, ret |-> 0,
                   after |-> [inscription_year |-> 0, invalid_years |-> 0, errors |-> << >>]] :
                      year_str \in YearTexts }

\* the entity the stages make of a record with this year
SiteOfYear(year_str) ==
    TransformCleaned(CleanData(Site(Str("Petra"), Str("Jordan"), Absent, Str(year_str), Absent)), 1)

\* inscription_year = self._parse_year(year_str); after holds the year of the entity
\* that a record with this year text gives, and what validate_transformed_data
\* reports of it
CallParseYear ==
    /\ unit.fn = "year"
    /\ ~unit.done
    /\ \E site \in { SiteOfYear(unit.arg) } :
           \E report \in { ValidateTransformedData(<< site >>) } :
               unit' = [unit EXCEPT
                           !.done = TRUE,
                           !.ret = ParseYear(unit.arg),
                           !.after = [inscription_year |-> site.inscription_year,
                                      invalid_years |-> report.quality_checks.invalid_years,
                                      errors |-> report.errors]]
    /\ UNCHANGED << transformation_stats, clock, raw_data, idx, standardized_sites,
                    pc, outcome, returned >>

NextYear == CallParseYear

SpecYear == InitYear /\ [][NextYear]_vars

-----------------------------------------------------------------------------
(* Properties of transform_pipeline.                                       *)

\* the entities of a list
Entities(sites) == { sites[k] : k \in 1..Len(sites) }

\* the entities transform_pipeline has emitted: those of the call in progress and
\* those of the last list returned
Emitted == Entities(standardized_sites) \cup Entities(returned)

\* an entry is a record that cleaning accepts and whose cleaned name has at least 3
\* and cleaned country at least 2 characters
PassesValidation(raw_site) ==
    /\ raw_site.mapping
    /\ ~CleanRaises(raw_site)
    /\ Len(Cleaned(raw_site).name) >= 3
    /\ Len(Cleaned(raw_site).country) >= 2

\* C1: a failure on one entry is caught and counted, the entries after it are still
\* processed, and transform_pipeline returns: every call that has ended has returned,
\* with the loop at the end of raw_data.
C1_FailuresAreIsolated ==
    (pc = "idle" /\ outcome # "none") => (outcome = "returned" /\ idx = Len(raw_data))

\* C2: between calls, processed = transformed + errors.
C2_ProcessedIsTransformedPlusErrors ==
    pc = "idle" =>
        transformation_stats.processed =
            transformation_stats.transformed + transformation_stats.errors

\* C3: the list a call returns holds one entity for each entry of raw_data that passes
\* validation, in the order of raw_data, and nothing else.
C3_ReturnedIsOrderedSubsequence ==
    outcome = "returned" =>
        LET passed == SelectSeq(raw_data, PassesValidation)
        IN  /\ Len(returned) = Len(passed)
            /\ \A k \in 1..Len(passed) :
                   /\ returned[k].name = Cleaned(passed[k]).name
                   /\ returned[k].country = Cleaned(passed[k]).country
                   /\ returned[k].location = Cleaned(passed[k]).location
                   /\ returned[k].inscription_year = ParseYear(Cleaned(passed[k]).year)
                   /\ returned[k].criteria_numbers =
                          ParseCriteria(Cleaned(passed[k]).criteria).numbers

\* a call returned two different entities, with a dropped entry between their records
C3_Witness ==
    /\ outcome = "returned"
    /\ Len(raw_data) = 3
    /\ ~PassesValidation(raw_data[2])
    /\ Len(returned) = 2
    /\ returned[1].name # returned[2].name

\* the cleaned name is empty or shorter than 3, or the cleaned country is empty or
\* shorter than 2
TooShort(cleaned_site) ==
    \/ cleaned_site.name = ""
    \/ Len(cleaned_site.name) < 3
    \/ cleaned_site.country = ""
    \/ Len(cleaned_site.country) < 2

\* C4: on a record whose cleaned name or country is too short, _validate_cleaned_data
\* returns False and the iteration adds one to errors, appends no entity, leaves
\* transformed, enriched and quality_scores as they were, and stays in the loop.
C4_InvalidRecordIsDropped ==
    [][ (InLoop /\ Current.mapping /\ ~CleanRaises(Current) /\ TooShort(Cleaned(Current)))
        => /\ ValidateCleanedData(Cleaned(Current)) = FALSE
           /\ transformation_stats'.errors = transformation_stats.errors + 1
           /\ transformation_stats'.processed = transformation_stats.processed + 1
           /\ transformation_stats'.transformed = transformation_stats.transformed
           /\ transformation_stats'.enriched = transformation_stats.enriched
           /\ transformation_stats'.quality_scores = transformation_stats.quality_scores
           /\ standardized_sites' = standardized_sites
           /\ pc' = "loop" ]_vars

\* after one entity, a record with a too short name or country has been handled: one
\* error, still one entity
C4_Witness ==
    /\ pc = "loop"
    /\ idx = 2
    /\ PassesValidation(raw_data[1])
    /\ ~CleanRaises(raw_data[2])
    /\ TooShort(Cleaned(raw_data[2]))
    /\ transformation_stats.errors = 1
    /\ transformation_stats.transformed = 1
    /\ Len(standardized_sites) = 1
    /\ Len(transformation_stats.quality_scores) = 1

\* an entity with nothing enriched, no year and no criteria, and a name of 5 or more
NothingKnown(site) ==
    /\ ~Truthy(site.iso_country_code)
    /\ ~Truthy(site.region)
    /\ ~Truthy(site.continent)
    /\ site.inscription_year = 0
    /\ site.criteria_type = UNKNOWN
    /\ site.criteria_numbers = << >>
    /\ site.criteria_description = "Unknown criteria"
    /\ Len(site.name) >= 5

\* C6, as the code has it: an emitted entity with nothing enriched, no year and no
\* criteria and a name of 5 or more scores 0.2 when its location equals its country
\* (name length and last_updated pass) and 0.3 when the two differ (the location check
\* passes as well).
C6_BareRecordScore ==
    \A site \in Emitted :
        NothingKnown(site) =>
            site.data_quality_score = (IF site.location = site.country THEN 2 ELSE 3)

\* emitted: a bare entity that scores 0.2 and one that scores 0.3
C6_Witness ==
    \E a, b \in Emitted :
        /\ NothingKnown(a) /\ a.location = a.country /\ a.data_quality_score = 2
        /\ NothingKnown(b) /\ b.location # b.country /\ b.data_quality_score = 3

\* C6, as the specification has it: such an entity scores exactly 0.3.
C6_BareRecordScoresThreeTenths ==
    \A site \in Emitted : NothingKnown(site) => site.data_quality_score = 3

TierLabels == {"high_quality_data", "medium_quality_data", "low_quality_data"}

\* C7: the tags of every emitted entity hold exactly one tier label: high from 0.8,
\* medium from 0.6 to below 0.8, low otherwise.
C7_ExactlyOneTierLabel ==
    \A site \in Emitted :
        Entities(site.tags) \cap TierLabels =
            { IF site.data_quality_score >= 8 THEN "high_quality_data"
              ELSE IF site.data_quality_score >= 6 THEN "medium_quality_data"
              ELSE "low_quality_data" }

TypeLabels == {"cultural", "natural", "mixed", "unknown"}

\* C8: the tags of every emitted entity hold at most one criteria-type label, the
\* lowercased criteria_type.
C8_AtMostOneTypeLabel ==
    \A site \in Emitted :
        Entities(site.tags) \cap TypeLabels = {Lower(site.criteria_type)}

\* C10: emitted entities with the same name and country have the same id, and every
\* id is lowercase, holds no whitespace and has at most 50 characters.
C10_IdFromNameAndCountry ==
    /\ \A a, b \in Emitted : (a.name = b.name /\ a.country = b.country) => a.id = b.id
    /\ \A site \in Emitted :
           /\ Lower(site.id) = site.id
           /\ CharsOf(site.id) \cap SpaceChars = {}
           /\ Len(site.id) <= 50

\* emitted: two entities of one name and country that differ in location, from
\* different calls, and an id of 50 characters
C10_Witness ==
    /\ \E a \in Entities(returned), b \in Entities(standardized_sites) :
           /\ a.name = b.name
           /\ a.country = b.country
           /\ a.location # b.location
           /\ a.id = b.id
    /\ \E site \in Emitted : Len(site.id) = 50

-----------------------------------------------------------------------------
(* Properties of _calculate_quality_score.                                 *)

\* the ten checks of the specification, in its order
TenChecks(site) ==
    << Len(site.name) >= 5,
       Truthy(site.iso_country_code),
       Truthy(site.region),
       Truthy(site.continent),
       site.inscription_year > 0,
       site.criteria_type # UNKNOWN,
       Len(site.criteria_numbers) > 0,
       site.location # site.country,
       Len(site.criteria_description) > 20,
       Len(site.last_updated) > 0 >>

\* C5: the score is the number of the ten checks that pass, over 10: one of 0.0, 0.1,
\* ..., 1.0; and the entity is as it was.
C5_ScoreCountsTenChecks ==
    (unit.fn = "score" /\ unit.done) =>
        /\ unit.ret = Cardinality({ k \in 1..10 : TenChecks(unit.arg)[k] })
        /\ unit.ret \in 0..10
        /\ unit.after = unit.arg

\* scored: an entity that passes all ten checks with a name of exactly 5 characters
C5_Witness ==
    /\ unit.fn = "score"
    /\ unit.done
    /\ Len(unit.arg.name) = 5
    /\ unit.ret = 10

-----------------------------------------------------------------------------
(* Properties of _parse_criteria.                                          *)

CulturalCodes == {"i", "ii", "iii", "iv", "v", "vi"}
NaturalCodes == {"vii", "viii", "ix", "x"}

\* C9: the type is Mixed iff the codes hold a Cultural and a Natural code, Cultural
\* (Natural) iff they hold a Cultural (Natural) code and no code of the other type;
\* the example of the specification gives Mixed with the codes i, ii, vii.
C9_TypeFromRecognizedCodes ==
    (unit.fn = "criteria" /\ unit.done) =>
        LET codes == Entities(unit.ret.numbers)
            cultural == codes \cap CulturalCodes # {}
            natural == codes \cap NaturalCodes # {}
        IN  /\ unit.ret.type = MIXED <=> (cultural /\ natural)
            /\ unit.ret.type = CULTURAL <=> (cultural /\ ~natural)
            /\ unit.ret.type = NATURAL <=> (natural /\ ~cultural)
            /\ unit.arg = MixedExample =>
                   (unit.ret.type = MIXED /\ unit.ret.numbers = <<"i", "ii", "vii">>)

\* parsed: a text of three codes, Natural first and last with a Cultural one between
C9_Witness ==
    /\ unit.fn = "criteria"
    /\ unit.done
    /\ unit.ret.numbers = <<"vii", "i", "x">>
    /\ unit.ret.type = MIXED

-----------------------------------------------------------------------------
(* Properties of validate_transformed_data.                                *)

\* the ids that two or more entities of the list carry
SharedIds(sites) ==
    { id \in { sites[k].id : k \in 1..Len(sites) } :
          Cardinality({ k \in 1..Len(sites) : sites[k].id = id }) >= 2 }

\* the positions of raw_data whose entries pass validation and are given this id
PositionsGiven(id) ==
    { k \in 1..Len(raw_data) :
          PassesValidation(raw_data[k]) /\ TransformSite(raw_data[k], 1).id = id }

\* C11: the pipeline does not deduplicate: every entry that passes validation gives
\* its own entity, so an id has as many entities in the returned list as entries that
\* normalize to it; and when two entities of the validated list share an id the
\* report has validation_passed False, holds a duplicate-ID error naming that id,
\* and counts in duplicate_ids the distinct duplicated ids.
C11_DuplicatesKeptAndReported ==
    (unit.fn = "validate" /\ unit.done /\ pc = "idle" /\ outcome = "returned") =>
        LET sites == unit.arg
            report == unit.ret
        IN  /\ sites = returned
            /\ \A k \in 1..Len(raw_data) :
                   PassesValidation(raw_data[k]) =>
                       LET id == TransformSite(raw_data[k], 1).id
                       IN  Cardinality({ i \in 1..Len(sites) : sites[i].id = id })
                               = Cardinality(PositionsGiven(id))
            /\ SharedIds(sites) # {} =>
                   /\ report.validation_passed = FALSE
                   /\ \E e \in 1..Len(report.errors) :
                          /\ report.errors[e].text = "Duplicate site IDs found: "
                          /\ report.errors[e].ids = SharedIds(sites)
            /\ report.quality_checks.duplicate_ids = Cardinality(SharedIds(sites))

\* validated: a list of three entities, the first and the last with the same id and
\* another entity between them
C11_Witness ==
    /\ unit.fn = "validate"
    /\ unit.done
    /\ Len(returned) = 3
    /\ returned[1].id = returned[3].id
    /\ returned[2].id # returned[1].id
    /\ unit.ret.validation_passed = FALSE
    /\ unit.ret.quality_checks.duplicate_ids = 1

\* one of the error conditions of the report holds of the collection
ErrorCondition(sites) ==
    \/ SharedIds(sites) # {}
    \/ \E k \in 1..Len(sites) :
           \/ sites[k].id = ""
           \/ sites[k].name = ""
           \/ sites[k].country = ""
           \/ /\ sites[k].inscription_year # 0
              /\ (sites[k].inscription_year < 1900 \/ sites[k].inscription_year > 2030)

-----------------------------------------------------------------------------
(* The worked example of the specification.                                *)

\* C13: transform_pipeline on the single Angkor record returns one entity with
\* inscription_year 1992, criteria_type Cultural, criteria_numbers i, ii, iii, iv,
\* continent Asia, region Southeast Asia, iso_country_code KH, and tags that hold
\* cultural, asia, southeast_asia, 1990s, mid_inscription and one quality-tier label
\* and do not hold recent_inscription.
C13_AngkorEndToEnd ==
    (pc = "idle" /\ outcome = "returned" /\ raw_data = << Angkor >>) =>
        /\ Len(returned) = 1
        /\ LET site == returned[1]
               tags == Entities(site.tags)
           IN  /\ site.inscription_year = 1992
               /\ site.criteria_type = CULTURAL
               /\ site.criteria_numbers = << "i", "ii", "iii", "iv" >>
               /\ site.continent = "Asia"
               /\ site.region = "Southeast Asia"
               /\ site.iso_country_code = "KH"
               /\ {"cultural", "asia", "southeast_asia", "1990s", "mid_inscription"}
                      \subseteq tags
               /\ Cardinality(tags \cap TierLabels) = 1
               /\ "recent_inscription" \notin tags

\* returned: the list of a call on the single Angkor record
C13_Witness ==
    /\ pc = "idle"
    /\ outcome = "returned"
    /\ raw_data = << Angkor >>
    /\ Len(returned) = 1
    /\ returned[1].name = "Angkor Archaeological Park"

-----------------------------------------------------------------------------
(* Properties of _enrich_data.                                             *)

\* C14: a second application of _enrich_data to an enriched entity, its country and
\* location unchanged, leaves iso_country_code, continent, region and
\* endangered_status as they were after the first application.
C14_EnrichIsIdempotentOnGeography ==
    (unit.fn = "enrich_again" /\ unit.done) =>
        /\ unit.ret.country = unit.after.country
        /\ unit.ret.location = unit.after.location
        /\ unit.ret.iso_country_code = unit.after.iso_country_code
        /\ unit.ret.continent = unit.after.continent
        /\ unit.ret.region = unit.after.region
        /\ unit.ret.endangered_status = unit.after.endangered_status

\* enriched twice: an entity whose country is not in the table, whose region the
\* first application inferred from the location, and that is flagged endangered
C14_Witness ==
    /\ unit.fn = "enrich_again"
    /\ unit.done
    /\ unit.arg.region = None
    /\ unit.after.iso_country_code = None
    /\ unit.after.region = "Southeast Asia"
    /\ unit.after.endangered_status = TRUE
    /\ transformation_stats.enriched = 2

\* the four keys the lookup tries, in order, for a country text
LookupKeys(country) ==
    LET key == Strip(SplitFirst(Strip(Lower(country)), ","))
    IN  << key,
           Replace(key, "the ", ""),
           Replace(key, " of", ""),
           Strip(SplitFirst(key, "(")) >>

\* C17: _enrich_data returns for every country text; the first of the four keys
\* (the lowercased text cut at the first comma, that key without "the ", without
\* " of", and cut before a parenthesis) that is in the country table gives
\* iso_country_code, continent and region together from its row; when none is in
\* the table the lookup sets none of the three: iso_country_code and continent stay
\* unset and the region is left to the inference from the location.
C17_LookupTriesFourKeysInOrder ==
    (unit.fn = "enrich_again" /\ ~unit.done) =>
        LET keys == LookupKeys(unit.arg.country)
            found == { k \in 1..4 : keys[k] \in DOMAIN country_mappings }
            site == unit.after
        IN  /\ found # {} =>
                   LET row == country_mappings[keys[CHOOSE k \in found :
                                                        \A j \in found : k <= j]]
                   IN  /\ site.iso_country_code = row.iso
                       /\ site.continent = row.continent
                       /\ site.region = row.region
            /\ found = {} =>
                   /\ site.iso_country_code = unit.arg.iso_country_code
                   /\ site.continent = unit.arg.continent
                   /\ site.region = WithInferredRegion(unit.arg).region

\* enriched: an entity whose country is found only by the key cut before the
\* parenthesis
C17_Witness ==
    /\ unit.fn = "enrich_again"
    /\ ~unit.done
    /\ unit.arg.country = "Iran (Islamic Republic of)"
    /\ unit.arg.iso_country_code = None
    /\ unit.after.iso_country_code = "IR"
    /\ unit.after.region = "Western Asia"

-----------------------------------------------------------------------------
(* Properties of _normalize_name.                                          *)

\* the texts left of s by the removal of no prefix or of one listed prefix
LessOnePrefix(s) ==
    { s } \cup { SubSeq(s, Len(name_prefixes[k]) + 1, Len(s)) :
                     k \in { i \in 1..Len(name_prefixes) : StartsWith(s, name_prefixes[i]) } }

\* the texts left of s by the removal of no suffix or of one listed suffix
LessOneSuffix(s) ==
    { s } \cup { SubSeq(s, 1, Len(s) - Len(name_suffixes[k])) :
                     k \in { i \in 1..Len(name_suffixes) : EndsWith(s, name_suffixes[i]) } }

\* C15: for every name the result of _normalize_name is the lowercased name less at
\* most one listed prefix and at most one listed suffix (and the blanks at its ends).
C15_AtMostOnePrefixAndSuffix ==
    (unit.fn = "name" /\ unit.done) =>
        \E shorter \in LessOnePrefix(Lower(unit.arg)) :
            \E shortest \in LessOneSuffix(shorter) :
                unit.ret = Strip(shortest)

-----------------------------------------------------------------------------
(* Properties of _parse_criteria.                                          *)

\* C16: for every criteria text the criteria_numbers that _parse_criteria returns
\* hold only keys of the criteria table (i to x) and hold no code twice.
C16_NumbersAreSetOfRecognizedCodes ==
    (unit.fn = "criteria" /\ unit.done) =>
        LET numbers == unit.ret.numbers
        IN  /\ \A k \in 1..Len(numbers) : numbers[k] \in DOMAIN criteria_mappings
            /\ \A j, k \in 1..Len(numbers) : numbers[j] = numbers[k] => j = k

-----------------------------------------------------------------------------
(* Properties of _generate_tags.                                           *)

\* C18: the list _generate_tags returns is strictly ascending in the order of
\* strings (sorted, no element twice) and holds the labels derived from the entity
\* and nothing else, so that the labels fix it whatever the order they were added
\* in; the entity is as it was before the call.
C18_TagsStrictlyAscending ==
    (unit.fn = "tags" /\ unit.done) =>
        /\ \A k \in 1..(Len(unit.ret) - 1) : StrLess(unit.ret[k], unit.ret[k + 1])
        /\ Entities(unit.ret) = TagSet(unit.arg)
        /\ unit.after = unit.arg

\* tagged: an entity whose country and region give the same label, with nine labels
\* in all
C18_Witness ==
    /\ unit.fn = "tags"
    /\ unit.done
    /\ unit.arg.country = "South Asia"
    /\ unit.arg.region = "South Asia"
    /\ Len(unit.ret) = 9
    /\ \E k \in 1..Len(unit.ret) : unit.ret[k] = "south_asia"

EraLabels == {"early_inscription", "mid_inscription", "recent_inscription"}

\* a label of four digits and an s
DecadeLabel(tag) ==
    /\ Len(tag) = 5
    /\ Char(tag, 5) = "s"
    /\ \A i \in 1..4 : Char(tag, i) \in CharsOf(DigitChars)

\* C19: for inscription_year > 0 the tags hold the decade label of the year,
\* 10 * (year // 10) followed by s, and exactly one era label: early_inscription
\* below 1980, mid_inscription from 1980 to 1999, recent_inscription from 2000; for
\* inscription_year = 0 they hold no decade label and no era label.
C19_DecadeAndEraLabels ==
    (unit.fn = "tags" /\ unit.done) =>
        LET year == unit.arg.inscription_year
            tags == Entities(unit.ret)
        IN  /\ year > 0 =>
                   /\ { tag \in tags : DecadeLabel(tag) }
                          = { ToString(10 * (year \div 10)) \o "s" }
                   /\ tags \cap EraLabels =
                          { IF year < 1980 THEN "early_inscription"
                            ELSE IF year <= 1999 THEN "mid_inscription"
                            ELSE "recent_inscription" }
                   /\ year = 1992 => "1990s" \in tags
            /\ year = 0 =>
                   /\ { tag \in tags : DecadeLabel(tag) } = {}
                   /\ tags \cap EraLabels = {}

\* tagged: an entity of the first year of the middle era
C19_Witness ==
    /\ unit.fn = "tags"
    /\ unit.done
    /\ unit.arg.inscription_year = 1980
    /\ "1980s" \in Entities(unit.ret)
    /\ "mid_inscription" \in Entities(unit.ret)

-----------------------------------------------------------------------------
(* Properties of the run statistics.                                       *)

\* the entries of a statistics value the specification names
StatsEntries(stats) ==
    << stats.processed, stats.transformed, stats.errors, stats.quality_scores >>

\* C20: a statistics value handed out by get_transformation_stats, or embedded in
\* the summary statistics, is a read-only snapshot: while the caller leaves it alone
\* its processed, transformed and errors counters and its quality-score list stay
\* what they were, whatever the pipeline processes afterwards; and a change the
\* caller makes to it leaves the pipeline's own statistics as they were.
C20_StatsAreSnapshot ==
    [][unit.fn = "stats" =>
           /\ unit' = unit => StatsEntries(StatsSeen') = StatsEntries(StatsSeen)
           /\ unit' # unit => transformation_stats' = transformation_stats]_vars

-----------------------------------------------------------------------------
(* Properties of the run statistics over the life of one pipeline.          *)

\* C21: a new pipeline has processed = transformed = enriched = errors = 0 and an
\* empty score list, and no step of transform_pipeline, export_to_formats,
\* _generate_summary_stats or validate_transformed_data on it lowers a counter or
\* does anything to the score list but append to it: the entry of a call leaves the
\* statistics as the calls before left them.
C21_StatsOnlyGrow ==
    /\ transformation_stats =
           [processed |-> 0, transformed |-> 0, enriched |-> 0, errors |-> 0,
            quality_scores |-> << >>]
    /\ [][/\ transformation_stats'.processed >= transformation_stats.processed
          /\ transformation_stats'.transformed >= transformation_stats.transformed
          /\ transformation_stats'.enriched >= transformation_stats.enriched
          /\ transformation_stats'.errors >= transformation_stats.errors
          /\ Len(transformation_stats'.quality_scores)
                 >= Len(transformation_stats.quality_scores)
          /\ SubSeq(transformation_stats'.quality_scores, 1,
                    Len(transformation_stats.quality_scores))
                 = transformation_stats.quality_scores
          /\ (pc = "idle" /\ pc' = "loop") =>
                 transformation_stats' = transformation_stats]_vars

\* in a second call, on one entry, after a first call that transformed one entry:
\* the totals are those of both calls
C21_Witness ==
    /\ pc = "idle"
    /\ outcome = "returned"
    /\ Len(raw_data) = 1
    /\ Len(returned) = 1
    /\ transformation_stats.processed = 2
    /\ transformation_stats.transformed = 2
    /\ Len(transformation_stats.quality_scores) = 2
    /\ unit.fn = "export"

-----------------------------------------------------------------------------
(* Properties of _clean_data.                                              *)

\* C22: _clean_data returns for every mapping; an absent name or country is the
\* empty string, an absent location the cleaned country, an absent year or criteria
\* the text Unknown, and a year or criteria that is no string is turned into its
\* text.
C22_CleanNeverRaises ==
    (unit.fn = "clean" /\ unit.done) =>
        LET raw_site == unit.arg
            cleaned == unit.ret.cleaned
        IN  /\ ~unit.ret.raises
            /\ raw_site.name = Absent => cleaned.name = ""
            /\ raw_site.country = Absent => cleaned.country = ""
            /\ raw_site.location = Absent => cleaned.location = cleaned.country
            /\ raw_site.year = Absent => cleaned.year = "Unknown"
            /\ raw_site.criteria = Absent => cleaned.criteria = "Unknown"
            /\ raw_site.year.t = "other" => cleaned.year = raw_site.year.v
            /\ raw_site.criteria.t = "other" => cleaned.criteria = raw_site.criteria.v

-----------------------------------------------------------------------------
(* Properties of the description _parse_criteria returns.                   *)

\* the descriptions the criteria table gives for the codes it holds, in the order
\* of the codes
ResolvedDescriptions(numbers) ==
    LET resolved == SelectSeq(numbers, LAMBDA code : code \in DOMAIN criteria_mappings)
    IN  [k \in 1..Len(resolved) |-> criteria_mappings[resolved[k]].description]

-----------------------------------------------------------------------------
(* Properties of _parse_year.                                              *)

\* a token of four digits that starts with 19 or 20
YearToken(token) ==
    /\ Len(token) = 4
    /\ SubSeq(token, 1, 2) \in {"19", "20"}
    /\ \A i \in 3..4 : Char(token, i) \in CharsOf(DigitChars)

\* the year tokens of a text, left to right
YearTokens(text) == SelectSeq(WordRuns[text], YearToken)

\* C24: _parse_year returns 0 for the empty text, for unknown in any letter case and
\* for a text without a token 19dd or 20dd, and otherwise the first such token as
\* an integer; so the entity made of a record has inscription_year 0 or between
\* 1900 and 2099, and validate_transformed_data reports an invalid year of it
\* exactly when the year is between 2031 and 2099.
C24_YearIsZeroOrFirstToken ==
    (unit.fn = "year" /\ unit.done) =>
        /\ IF unit.arg = "" \/ Lower(unit.arg) = "unknown" \/ YearTokens(unit.arg) = << >>
           THEN unit.ret = 0
           ELSE unit.ret = ToInt[YearTokens(unit.arg)[1]]
        /\ unit.after.inscription_year = 0
               \/ unit.after.inscription_year \in 1900..2099
        /\ unit.after.invalid_years = 1 <=> unit.after.inscription_year \in 2031..2099
        /\ unit.after.invalid_years = 0 <=> unit.after.errors = << >>

\* parsed: a text with two year tokens, the first of them beyond 2030, whose entity
\* draws the invalid-year error
C24_Witness ==
    /\ unit.fn = "year"
    /\ unit.done
    /\ unit.arg = "2031-1992"
    /\ unit.ret = 2031
    /\ unit.after.inscription_year = 2031
    /\ unit.after.invalid_years = 1

-----------------------------------------------------------------------------
(* scrape_all_heritage_sites of HeritagesSiteScraper (scraper.py).  The page  *)
(* is given by the texts of the rows of its wikitables and of the table under *)
(* a year heading; the scraper's position and lists are held in unit.after.   *)

\* the most rows of a kind on a page
MaxRows == 2

\* the attributes of a HeritageDataTransformationPipeline: those __init__ assigns
\* and the methods the class defines
PipelineAttributes ==
    { "logger", "country_mappings", "region_mappings", "criteria_mappings",
      "transformation_stats", "_convert_to_roman", "__init__", "_setup_logging", "_load_country_mappings", "_load_region_mappings",
      "_load_criteria_mappings", "transform_pipeline", "_clean_data",
      "_normalize_unicode", "_validate_cleaned_data", "_standardize_data",
      "_generate_site_id", "_normalize_name", "_parse_year", "_parse_criteria",
      "_enrich_data", "_infer_region_from_location", "_check_endangered_status",
      "_calculate_quality_score", "_generate_tags", "export_to_formats",
      "_generate_summary_stats", "create_data_catalog", "_calculate_field_completeness",
      "validate_transformed_data" }

\* self.pipeline.transform_single_site raises AttributeError: the class defines no
\* such method
TransformSingleSiteRaises == "transform_single_site" \notin PipelineAttributes

\* the texts of the cells of a table row
ScrapedRow(name, country, criteria, year) ==
    [name |-> name, country |-> country, criteria |-> criteria, year |-> year]

ScrapedRows ==
    { ScrapedRow("Angkor Archaeological Park", "Cambodia", "(i)(ii)(iii)(iv)", "1992"),
      ScrapedRow("Petra", "Jordan", "Unknown", "1985"),
      ScrapedRow("Ur", "Iraq", "(iii)", "2016") }

\* _extract_site_data returns a mapping for the row, and not None
ExtractsSite(row) ==
    row.name # "" /\ Len(row.name) > 3 /\ row.country # "" /\ Len(row.country) > 1

\* _extract_site_data: the mapping it returns
ExtractSiteData(row) ==
    Site(Str(row.name), Str(row.country), Str(row.country), Str(row.year), Str(row.criteria))

\* extract_sites_from_table: the sites of the rows of a table under a year heading
ExtractSitesFromTable[rows \in Seq(ScrapedRows), year \in STRING] ==
    IF rows = << >> THEN << >>
    ELSE LET row == rows[1]
             rest == ExtractSitesFromTable[Tail(rows), year]
         IN  IF row.name # "" /\ Len(row.name) > 3 /\ row.country # ""
             THEN << Site(Str(row.name), Str(row.country), Str(row.country),
                          Str(IF year # "" THEN year ELSE "Unknown"), Str(row.criteria)) >>
                      \o rest
             ELSE rest

\* the year of the heading above the table of the page
HeadingYear == "1992"

RowsOfPage == UNION { [1..n -> ScrapedRows] : n \in 0..MaxRows }

ScrapedPages ==
    [rows : RowsOfPage, section_rows : RowsOfPage, request_fails : BOOLEAN,
     enable_transformation : BOOLEAN]

InitScrape ==
    /\ NewPipeline
    /\ unit \in { [fn |-> "scrape", arg |-> page, done |-> FALSE,
                   ret |-> [raises |-> "none", value |-> << >>],
                   after |-> [at |-> "request", row |-> 0, site |-> 0,
                              all_sites |-> << >>, standardized_sites |-> << >>]] :
                  page \in ScrapedPages }

Scraping(at) == unit.fn = "scrape" /\ ~unit.done /\ unit.after.at = at

\* session.get or raise_for_status raises a RequestException: the handler returns []
ScrapeRequestFails ==
    /\ Scraping("request")
    /\ unit.arg.request_fails
    /\ unit' = [unit EXCEPT !.done = TRUE, !.after.at = "done",
                            !.ret = [raises |-> "none", value |-> << >>]]
    /\ UNCHANGED << transformation_stats, clock, raw_data, idx, standardized_sites,
                    pc, outcome, returned >>

\* the page is fetched and parsed
ScrapeParsesPage ==
    /\ Scraping("request")
    /\ ~unit.arg.request_fails
    /\ unit' = [unit EXCEPT !.after.at = "tables"]
    /\ UNCHANGED << transformation_stats, clock, raw_data, idx, standardized_sites,
                    pc, outcome, returned >>

\* one row of a wikitable: the raw site is appended; the call of
\* transform_single_site raises AttributeError, which the except clause of the row
\* swallows
ScrapeTableRow ==
    /\ Scraping("tables")
    /\ unit.after.row < Len(unit.arg.rows)
    /\ unit.arg.enable_transformation => TransformSingleSiteRaises
    /\ LET row == unit.arg.rows[unit.after.row + 1]
       IN  unit' = [unit EXCEPT
                       !.after.row = @ + 1,
                       !.after.all_sites =
                           IF ExtractsSite(row) THEN Append(@, ExtractSiteData(row)) ELSE @]
    /\ UNCHANGED << transformation_stats, clock, raw_data, idx, standardized_sites,
                    pc, outcome, returned >>

\* the wikitables are done: the table under the year heading is extracted
ScrapeEndOfTables ==
    /\ Scraping("tables")
    /\ unit.after.row = Len(unit.arg.rows)
    /\ unit' = [unit EXCEPT !.after.at = "sections"]
    /\ UNCHANGED << transformation_stats, clock, raw_data, idx, standardized_sites,
                    pc, outcome, returned >>

\* one site of the table under the year heading: the raw site is appended; with
\* transformation enabled the call of transform_single_site raises AttributeError,
\* which no handler of scrape_all_heritage_sites catches
ScrapeSectionSite ==
    /\ Scraping("sections")
    /\ unit.arg.enable_transformation => TransformSingleSiteRaises
    /\ LET table_sites == ExtractSitesFromTable[unit.arg.section_rows, HeadingYear]
       IN  /\ unit.after.site < Len(table_sites)
           /\ unit' =
                  IF unit.arg.enable_transformation
                  THEN [unit EXCEPT
                           !.after.site = @ + 1,
                           !.after.all_sites = Append(@, table_sites[unit.after.site + 1]),
                           !.after.at = "done",
                           !.done = TRUE,
                           !.ret = [raises |-> "AttributeError", value |-> << >>]]
                  ELSE [unit EXCEPT
                           !.after.site = @ + 1,
                           !.after.all_sites = Append(@, table_sites[unit.after.site + 1])]
    /\ UNCHANGED << transformation_stats, clock, raw_data, idx, standardized_sites,
                    pc, outcome, returned >>

\* the totals are printed and all_sites is returned; with transformation enabled the
\* success rate divides by len(all_sites)
ScrapeReturns ==
    /\ Scraping("sections")
    /\ unit.after.site = Len(ExtractSitesFromTable[unit.arg.section_rows, HeadingYear])
    /\ unit' =
           IF unit.arg.enable_transformation /\ Len(unit.after.all_sites) = 0
           THEN [unit EXCEPT !.done = TRUE, !.after.at = "done",
                             !.ret = [raises |-> "ZeroDivisionError", value |-> << >>]]
           ELSE [unit EXCEPT !.done = TRUE, !.after.at = "done",
                             !.ret = [raises |-> "none", value |-> unit.after.all_sites]]
    /\ UNCHANGED << transformation_stats, clock, raw_data, idx, standardized_sites,
                    pc, outcome, returned >>

NextScrape ==
    \/ ScrapeRequestFails
    \/ ScrapeParsesPage
    \/ ScrapeTableRow
    \/ ScrapeEndOfTables
    \/ ScrapeSectionSite
    \/ ScrapeReturns

SpecScrape == InitScrape /\ [][NextScrape]_vars

-----------------------------------------------------------------------------
(* validate_request_rate (validators.py).  time.time() is counted in ticks;   *)
(* unit.arg is the time now, unit.after the function's attribute last_request *)
(* and whether it is set, unit.ret the outcome of the last call and its time.  *)

\* the ticks of one second
TicksPerSecond == 2

\* the last tick of the clock
MaxTime == 8

\* a faulty variant of validate_request_rate: a rejected call stamps last_request
ValidateRequestRateStampsRejected(attribute, current_time) ==
    IF ~attribute.has_last_request
    THEN [result |-> "True", has_last_request |-> TRUE, last_request |-> current_time]
    ELSE IF current_time - attribute.last_request < 1 * TicksPerSecond
    THEN [result |-> "ValueError", has_last_request |-> TRUE, last_request |-> current_time]
    ELSE [result |-> "True", has_last_request |-> TRUE, last_request |-> current_time]

\* validate_request_rate: the outcome of a call at current_time and the attribute
\* after it
ValidateRequestRate(attribute, current_time) ==
    IF ~attribute.has_last_request
    THEN [result |-> "True", has_last_request |-> TRUE, last_request |-> current_time]
    ELSE IF current_time - attribute.last_request < 1 * TicksPerSecond
    THEN [result |-> "ValueError", has_last_request |-> TRUE,
          last_request |-> attribute.last_request]
    ELSE [result |-> "True", has_last_request |-> TRUE, last_request |-> current_time]

\* the module is loaded: the function has no attribute last_request
InitRate ==
    /\ NewPipeline
    /\ unit \in { [fn |-> "rate", arg |-> now, done |-> FALSE,
                   ret |-> [result |-> "none", at |-> 0],
                   after |-> [has_last_request |-> FALSE, last_request |-> 0]] :
                  now \in 0..TicksPerSecond }

\* time passes
Tick ==
    /\ unit.fn = "rate"
    /\ unit.arg < MaxTime
    /\ unit' = [unit EXCEPT !.arg = @ + 1]
    /\ UNCHANGED << transformation_stats, clock, raw_data, idx, standardized_sites,
                    pc, outcome, returned >>

\* a call of validate_request_rate
CallValidateRequestRate ==
    /\ unit.fn = "rate"
    /\ LET call == ValidateRequestRate(unit.after, unit.arg)
       IN  unit' = [unit EXCEPT
                       !.done = TRUE,
                       !.ret = [result |-> call.result, at |-> unit.arg],
                       !.after = [has_last_request |-> call.has_last_request,
                                  last_request |-> call.last_request]]
    /\ UNCHANGED << transformation_stats, clock, raw_data, idx, standardized_sites,
                    pc, outcome, returned >>

NextRate == Tick \/ CallValidateRequestRate

SpecRate == InitRate /\ [][NextRate]_vars

-----------------------------------------------------------------------------
(* Properties of the region inference of _enrich_data.                      *)

\* the regions in the order the inference tries them
RegionOrder ==
    << "South Asia", "Southeast Asia", "East Asia", "Western Asia", "Western Europe",
       "Southern Europe", "Northern Europe", "Eastern Europe", "North Africa",
       "West Africa", "East Africa", "Southern Africa" >>

\* a keyword of the region is a substring of the lowercased location
RegionMatches(region, location) ==
    \E entry \in Entities(region_keywords) :
        /\ entry[1] = region
        /\ \E keyword \in Entities(entry[2]) : Contains(Lower(location), keyword)

\* C25: when the country lookup finds a row, the region is the row's, whatever the
\* location says; when it finds none and the location is empty the region stays
\* unset; when it finds none and the location is not empty the region is the first
\* one of the fixed order one of whose keywords is a substring of the lowercased
\* location, and stays unset when there is none.
C25_RegionInferredOnlyWhenUnset ==
    (unit.fn = "enrich_again" /\ ~unit.done) =>
        LET keys == LookupKeys(unit.arg.country)
            found == { k \in 1..4 : keys[k] \in DOMAIN country_mappings }
            location == unit.arg.location
            matching == { k \in 1..Len(RegionOrder) : RegionMatches(RegionOrder[k], location) }
            site == unit.after
        IN  /\ found # {} =>
                   site.region = country_mappings[keys[CHOOSE k \in found :
                                                           \A j \in found : k <= j]].region
            /\ (found = {} /\ location = "") => site.region = None
            /\ (found = {} /\ location # "" /\ matching = {}) => site.region = None
            /\ (found = {} /\ location # "" /\ matching # {}) =>
                   site.region = RegionOrder[CHOOSE k \in matching :
                                                 \A j \in matching : k <= j]

\* enriched: an entity of a country the table does not hold, whose location names
\* a keyword of East Asia before one of South Asia
C25_Witness ==
    /\ unit.fn = "enrich_again"
    /\ ~unit.done
    /\ unit.arg.country = "Nowhere"
    /\ unit.arg.location = "China and India"
    /\ unit.after.region = "South Asia"
    /\ unit.after.iso_country_code = None

-----------------------------------------------------------------------------
(* Properties of the required fields of the emitted entities.               *)

\* the report holds an error about a missing required field
ReportsMissingField(report) ==
    \E e \in 1..Len(report.errors) :
        /\ Len(report.errors[e].text) >= 8
        /\ SubSeq(report.errors[e].text, 1, 8) = "Missing "

\* C26: every entity the pipeline has emitted has a non-empty id, a name of at
\* least 3 characters and a country of at least 2 characters, and the validation of
\* a list the pipeline returned holds no missing-required-field error.
C26_EmittedEntitiesHaveRequiredFields ==
    /\ \A site \in Entities(standardized_sites) \cup Entities(returned) :
           /\ site.id # ""
           /\ Len(site.name) >= 3
           /\ Len(site.country) >= 2
    /\ (unit.fn = "validate" /\ unit.done) =>
           /\ ~ReportsMissingField(unit.ret)
           /\ unit.ret.quality_checks.missing_required_fields = 0

\* validated: a returned list of two entities from a batch of three entries, one of
\* which was dropped for its short name or country
C26_Witness ==
    /\ unit.fn = "validate"
    /\ unit.done
    /\ Len(raw_data) = 3
    /\ Len(unit.arg) = 2
    /\ unit.arg = returned
    /\ \E k \in 1..3 : raw_data[k] \in { ShortName, ShortCountry }

-----------------------------------------------------------------------------
(* Properties of the geography fields of an enriched entity.                *)

\* the points of the quality score the entity gets for its iso code and continent
GeographyPoints(site) ==
    CalculateQualityScore(site)
        - CalculateQualityScore([site EXCEPT !.iso_country_code = None, !.continent = None])

\* the fields are those of an entity whose continent is set exactly when its iso
\* code is, and whose region is set when they are
GeographyConsistent(site) ==
    /\ Truthy(site.continent) <=> Truthy(site.iso_country_code)
    /\ Truthy(site.iso_country_code) => Truthy(site.region)
    /\ GeographyPoints(site) \in { 0, 2 }

\* C27: an enriched entity has its continent set exactly when its iso code is set,
\* and then its region is set as well; an entity whose region was inferred from the
\* location has neither iso code nor continent; the two quality checks 'iso code
\* set' and 'continent set' give their points together or not at all.
C27_ContinentSetIffIsoSet ==
    (unit.fn = "enrich_again") =>
        LET keys == LookupKeys(unit.arg.country)
            found == { k \in 1..4 : keys[k] \in DOMAIN country_mappings }
            site == IF unit.done THEN unit.ret ELSE unit.after
        IN  /\ GeographyConsistent(site)
            /\ Truthy(site.iso_country_code) <=> found # {}
            /\ (found = {} /\ Truthy(site.region)) =>
                   /\ site.iso_country_code = None
                   /\ site.continent = None
                   /\ GeographyPoints(site) = 0

\* enriched: an entity whose region was inferred from its location, and so has a
\* region without a continent
C27_Witness ==
    /\ unit.fn = "enrich_again"
    /\ unit.done
    /\ unit.arg.country = "Korea, Republic of"
    /\ unit.arg.location = "Northern Thailand"
    /\ unit.ret.region = "Southeast Asia"
    /\ unit.ret.continent = None

-----------------------------------------------------------------------------
(* Properties of the counters after a call of transform_pipeline.           *)

\* C28: after a call of transform_pipeline on a new pipeline the list of quality
\* scores is as long as the enriched counter says, both are at least the
\* transformed counter, and the transformed counter is the number of entities the
\* call returned.
C28_CountersMatchReturnedEntities ==
    (pc = "idle" /\ outcome # "none") =>
        /\ Len(transformation_stats.quality_scores) = transformation_stats.enriched
        /\ transformation_stats.enriched >= transformation_stats.transformed
        /\ transformation_stats.transformed = Len(returned)

\* the same, for the calls whose entries are all mappings
C28_CountersMatchWhenAllMappings ==
    (pc = "idle" /\ outcome # "none" /\ \A k \in 1..Len(raw_data) : raw_data[k].mapping) =>
        /\ Len(transformation_stats.quality_scores) = transformation_stats.enriched
        /\ transformation_stats.enriched = transformation_stats.transformed
        /\ transformation_stats.transformed = Len(returned)

-----------------------------------------------------------------------------
(* Properties of scrape_all_heritage_sites.                                 *)

\* the raw sites of the page: those of the wikitable rows, then those of the table
\* under the year heading
CollectedSites(page) ==
    LET Row(k) == page.rows[k]
        kept == SelectSeq([k \in 1..Len(page.rows) |-> k], LAMBDA k : ExtractsSite(Row(k)))
    IN  [k \in 1..Len(kept) |-> ExtractSiteData(Row(kept[k]))]
            \o ExtractSitesFromTable[page.section_rows, HeadingYear]

\* C29: with transformation enabled and the page fetched, the call returns without
\* an exception the list of every raw site of the page, and standardized_sites
\* holds one entity for each of them that the pipeline transforms.
C29_EveryScrapedSiteIsTransformed ==
    (unit.fn = "scrape" /\ unit.done /\ unit.arg.enable_transformation
         /\ ~unit.arg.request_fails) =>
        LET collected == CollectedSites(unit.arg)
        IN  /\ unit.ret.raises = "none"
            /\ unit.ret.value = collected
            /\ Len(unit.after.standardized_sites)
                   = Cardinality({ k \in 1..Len(collected) : PassesValidation(collected[k]) })

\* with transformation disabled, or when the request fails, the call returns without
\* an exception: every raw site of the page, or the empty list
C29_ScrapeWithoutTransformation ==
    (unit.fn = "scrape" /\ unit.done) =>
        /\ unit.arg.request_fails => unit.ret = [raises |-> "none", value |-> << >>]
        /\ (~unit.arg.request_fails /\ ~unit.arg.enable_transformation) =>
               unit.ret = [raises |-> "none", value |-> CollectedSites(unit.arg)]

-----------------------------------------------------------------------------
(* Properties of validate_request_rate.                                     *)

\* the step is a call at the time now that is accepted and stamps last_request
Accepted(now) ==
    /\ unit'.ret = [result |-> "True", at |-> now]
    /\ unit'.after = [has_last_request |-> TRUE, last_request |-> now]

\* the step is a call at the time now that raises and leaves last_request alone
Rejected(now) ==
    /\ unit'.ret = [result |-> "ValueError", at |-> now]
    /\ unit'.after = unit.after

\* C30: the first call is accepted; a later call is accepted exactly when at least
\* one second has passed since the last accepted call, and is rejected with an
\* error otherwise; an accepted call sets the last-request time to its own time and
\* a rejected call leaves it unchanged.
C30_MinimumGapBetweenAcceptedRequests ==
    [][ (unit.fn = "rate" /\ unit'.arg = unit.arg) =>
            LET now == unit.arg
                last == unit.after
            IN  /\ ~last.has_last_request => Accepted(now)
                /\ (last.has_last_request /\ now - last.last_request >= TicksPerSecond)
                       => Accepted(now)
                /\ (last.has_last_request /\ now - last.last_request < TicksPerSecond)
                       => Rejected(now) ]_vars

\* a call half a second after an accepted call was rejected, and last_request is
\* still the time of the accepted call
C30_Witness ==
    /\ unit.fn = "rate"
    /\ unit.ret = [result |-> "ValueError", at |-> unit.arg]
    /\ unit.after.has_last_request
    /\ unit.arg - unit.after.last_request = 1
    /\ TicksPerSecond > 1

=============================================================================
